---- MODULE Spec2Model ----
(***************************************************************************)
(* A model of the encoded-state codec: schema validation, the Zod ->        *)
(* protobuf descriptor conversion, protobuf wire (de)serialisation, the     *)
(* adaptive-compression marker, base64url text, encode / decode and the     *)
(* version-migration engine.                                                *)
(*                                                                          *)
(* Strings (field names, string values, message names) are sequences of     *)
(* character codes, byte buffers are sequences of 0..255, tokens are        *)
(* sequences of one-character strings.                                      *)
(***************************************************************************)
EXTENDS Integers, Sequences, FiniteSets, TLC

\* ------------------------------------------------------------------ bounds
\* Highest version number handed to encode / asked of applyMigrations.
MaxVersion == 3
\* Longest migrations array of a migration scenario.
MaxMigrations == 2
\* Nodes of a generated schema graph (schema validation scenarios).
MaxNodes == 3
MaxPayloadLen == 2
MaxCalls == 3
MaxBuilds == 3
\* the longest list of booleans handed to packBooleans
MaxBools == 9
\* the most inherited mutations made on one QueryParams instance
MaxMutations == 3

\* ------------------------------------------------------------- text helpers
\* "_encodedStateVersion"
RESERVED_FIELD ==
  <<95, 101, 110, 99, 111, 100, 101, 100, 83, 116, 97, 116, 101, 86, 101, 114, 115, 105, 111, 110>>

k_a == <<97>>
k_b == <<98>>
k_d == <<100>>
k_e == <<101>>
k_f == <<102>>
k_n == <<110>>
k_u == <<117>>
k_x == <<120>>
k_tags == <<116, 97, 103, 115>>
s_x == <<120>>
s_y == <<121>>
s_on == <<111, 110>>
s_off == <<111, 102, 102>>
s_run == <<97, 97, 97, 97, 97, 97, 97, 97, 97, 97, 97, 97>>
\* one character less: its message deflates to the length it already has
s_tie == <<97, 97, 97, 97, 97, 97, 97, 97, 97, 97, 97>>

RECURSIVE SeqConcat(_)
SeqConcat(ss) == IF ss = <<>> THEN <<>> ELSE Head(ss) \o SeqConcat(Tail(ss))

IndexOf(seq, x) ==
  IF \E i \in 1..Len(seq) : seq[i] = x
  THEN CHOOSE i \in 1..Len(seq) : seq[i] = x /\ \A j \in 1..(i - 1) : seq[j] # x
  ELSE 0

\* ------------------------------------------------------------ JS values
Undef == [t |-> "undefined", v |-> <<>>]
Null == [t |-> "null", v |-> <<>>]
Str(s) == [t |-> "string", v |-> s]
\* An integer is q * 2^32 + v with v in [-2^31, 2^31 - 1]: v is the value the
\* 32 low bits hold as a signed integer, and q is 0 for the integers of that range.
Num(n) == [t |-> "number", v |-> n, q |-> 0]
Wide(q, n) == [t |-> "number", v |-> n, q |-> q]
Bool(b) == [t |-> "boolean", v |-> b]
DateVal == [t |-> "date", v |-> <<>>]
Arr(items) == [t |-> "array", v |-> items]
\* an object is the sequence of its own properties, in insertion order
Prop(k, val) == [k |-> k, val |-> val]
Obj(props) == [t |-> "object", v |-> props]

HasKey(o, k) == \E i \in 1..Len(o.v) : o.v[i].k = k
Get(o, k) ==
  IF HasKey(o, k) THEN o.v[CHOOSE i \in 1..Len(o.v) : o.v[i].k = k].val ELSE Undef
Keys(o) == {o.v[i].k : i \in 1..Len(o.v)}
\* { ...o, [k]: val }
SetKey(o, k, val) ==
  IF HasKey(o, k)
  THEN Obj([i \in 1..Len(o.v) |-> IF o.v[i].k = k THEN Prop(k, val) ELSE o.v[i]])
  ELSE Obj(Append(o.v, Prop(k, val)))
\* const { [k]: _, ...rest } = o
DropKey(o, k) == Obj(SelectSeq(o.v, LAMBDA p : p.k # k))

\* Deep equality of two values, objects compared as key -> value maps
\* (property order does not matter, as with toEqual).
RECURSIVE DeepEq(_, _)
DeepEq(x, y) ==
  IF x.t # y.t THEN FALSE
  ELSE IF x.t = "array"
  THEN Len(x.v) = Len(y.v) /\ \A i \in 1..Len(x.v) : DeepEq(x.v[i], y.v[i])
  ELSE IF x.t = "object"
  THEN Keys(x) = Keys(y) /\ \A k \in Keys(x) : DeepEq(Get(x, k), Get(y, k))
  ELSE x = y

\* ------------------------------------------------------------ Zod schemas
\* A schema is a graph of schema objects: nodes[id] is one Zod instance,
\* kids are the ids of the schemas it holds (an object's shape in declared
\* key order, a wrapper's inner type, a union's options, a lazy's getter).
Node(kind, keys, kids, vals, int) ==
  [kind |-> kind, keys |-> keys, kids |-> kids, vals |-> vals, int |-> int]
ZString == Node("ZodString", <<>>, <<>>, <<>>, FALSE)
ZNumber == Node("ZodNumber", <<>>, <<>>, <<>>, FALSE)
ZInt == Node("ZodNumber", <<>>, <<>>, <<>>, TRUE)
ZBoolean == Node("ZodBoolean", <<>>, <<>>, <<>>, FALSE)
ZDate == Node("ZodDate", <<>>, <<>>, <<>>, FALSE)
ZObject(keys, kids) == Node("ZodObject", keys, kids, <<>>, FALSE)
ZArray(kid) == Node("ZodArray", <<>>, <<kid>>, <<>>, FALSE)
ZOptional(kid) == Node("ZodOptional", <<>>, <<kid>>, <<>>, FALSE)
ZNullable(kid) == Node("ZodNullable", <<>>, <<kid>>, <<>>, FALSE)
ZDefault(kid, val) == Node("ZodDefault", <<>>, <<kid>>, <<val>>, FALSE)
ZEnum(values) == Node("ZodEnum", <<>>, <<>>, values, FALSE)
ZUnion(kids) == Node("ZodUnion", <<>>, kids, <<>>, FALSE)
Schema(root, nodes) == [root |-> root, nodes |-> nodes]

\* ------------------------------------------------------------ schema.parse
ParseOk(val) == [ok |-> TRUE, val |-> val]
ParseFail == [ok |-> FALSE, val |-> Undef]

\* Zod's parse of value x by schema object id of S: the parsed value, or a
\* ZodError.  Objects are rebuilt in shape order, unknown keys stripped, a
\* key left out when its parsed value is undefined and the input lacks it.
RECURSIVE ZodParse(_, _, _)
ZodParse(S, id, x) ==
  LET n == S.nodes[id] IN
  CASE n.kind = "ZodString" -> IF x.t = "string" THEN ParseOk(x) ELSE ParseFail
    [] n.kind = "ZodNumber" ->
         IF x.t \in {"number", "float64"} THEN ParseOk(x) ELSE ParseFail
    [] n.kind = "ZodBoolean" -> IF x.t = "boolean" THEN ParseOk(x) ELSE ParseFail
    [] n.kind = "ZodDate" -> IF x.t = "date" THEN ParseOk(x) ELSE ParseFail
    [] n.kind = "ZodEnum" ->
         IF x.t = "string" /\ IndexOf(n.vals, x.v) > 0 THEN ParseOk(x) ELSE ParseFail
    [] n.kind = "ZodOptional" ->
         IF x.t = "undefined" THEN ParseOk(Undef) ELSE ZodParse(S, n.kids[1], x)
    [] n.kind = "ZodNullable" ->
         IF x.t = "null" THEN ParseOk(Null) ELSE ZodParse(S, n.kids[1], x)
    [] n.kind = "ZodDefault" ->
         ZodParse(S, n.kids[1], IF x.t = "undefined" THEN n.vals[1] ELSE x)
    [] n.kind = "ZodArray" ->
         IF x.t # "array" THEN ParseFail
         ELSE LET rs == [i \in 1..Len(x.v) |-> ZodParse(S, n.kids[1], x.v[i])] IN
              IF \A i \in 1..Len(rs) : rs[i].ok
              THEN ParseOk(Arr([i \in 1..Len(rs) |-> rs[i].val]))
              ELSE ParseFail
    [] n.kind = "ZodObject" ->
         IF x.t # "object" THEN ParseFail
         ELSE LET rs == [i \in 1..Len(n.keys) |-> ZodParse(S, n.kids[i], Get(x, n.keys[i]))]
                  set(i) == rs[i].val.t # "undefined" \/ HasKey(x, n.keys[i])
                  props == [i \in 1..Len(n.keys) |-> Prop(n.keys[i], rs[i].val)]
              IN IF \A i \in 1..Len(rs) : rs[i].ok
                 THEN ParseOk(Obj(SelectSeq(props, LAMBDA p : set(IndexOf(n.keys, p.k)))))
                 ELSE ParseFail
    [] n.kind = "ZodUnion" ->
         LET oks == {i \in 1..Len(n.kids) : ZodParse(S, n.kids[i], x).ok} IN
         IF oks = {} THEN ParseFail
         ELSE ZodParse(S, n.kids[CHOOSE i \in oks : \A j \in oks : i <= j], x)
    [] OTHER -> ParseFail

\* ------------------------------------------------------- validateSchema
FoundIn(found, visited) == [found |-> found, visited |-> visited]

\* the walk without the ZodLazy branch
ReservedScanKidsNoLazy(n) ==
  CASE n.kind \in {"ZodArray", "ZodOptional", "ZodNullable", "ZodDefault",
                   "ZodEffects"} -> <<n.kids[1]>>
    [] n.kind \in {"ZodObject", "ZodUnion", "ZodDiscriminatedUnion", "ZodTuple",
                   "ZodIntersection", "ZodMap", "ZodPipeline"} -> n.kids
    [] n.kind = "ZodRecord" -> <<n.kids[2]>>
    [] OTHER -> <<>>

\* The schemas one instanceof branch of hasReservedField recurses into, in
\* the order it visits them; <<>> for a kind no branch handles.
ReservedScanKids(n) ==
  CASE n.kind \in {"ZodArray", "ZodOptional", "ZodNullable", "ZodDefault",
                   "ZodEffects", "ZodLazy"} -> <<n.kids[1]>>
    [] n.kind \in {"ZodObject", "ZodUnion", "ZodDiscriminatedUnion", "ZodTuple",
                   "ZodIntersection", "ZodMap", "ZodPipeline"} -> n.kids
    [] n.kind = "ZodRecord" -> <<n.kids[2]>>
    [] OTHER -> <<>>

\* hasReservedField(schema, visited): the visited set is one WeakSet shared
\* by the whole walk, so the result carries it along.
RECURSIVE hasReservedField(_, _, _), someReserved(_, _, _, _)
hasReservedField(S, id, visited) ==
  IF id \in visited THEN FoundIn(FALSE, visited)
  ELSE LET n == S.nodes[id]
           vis == visited \cup {id}
       IN IF n.kind = "ZodObject" /\ IndexOf(n.keys, RESERVED_FIELD) > 0
          THEN FoundIn(TRUE, vis)
          ELSE someReserved(S, ReservedScanKids(n), 1, vis)
someReserved(S, kids, i, visited) ==
  IF i > Len(kids) THEN FoundIn(FALSE, visited)
  ELSE LET r == hasReservedField(S, kids[i], visited) IN
       IF r.found THEN r ELSE someReserved(S, kids, i + 1, r.visited)

\* only the top-level shape looked at
validateSchemaShallow(S) ==
  S.nodes[S.root].kind = "ZodObject" /\ IndexOf(S.nodes[S.root].keys, RESERVED_FIELD) > 0

\* validateSchema(schema): TRUE when it throws ValidationError.
validateSchemaThrows(S) == hasReservedField(S, S.root, {}).found

\* ------------------------------------------------------- zodToProtobuf
n_Message == <<77, 101, 115, 115, 97, 103, 101>>
n_Enum == <<69, 110, 117, 109>>
n_Value == <<86, 97, 108, 117, 101>>
n_EncodedState == <<69, 110, 99, 111, 100, 101, 100, 83, 116, 97, 116, 101>>

\* fieldName.charAt(0).toUpperCase() + fieldName.slice(1)
Capitalize(name) ==
  IF name = <<>> THEN <<>>
  ELSE IF name[1] >= 97 /\ name[1] <= 122 THEN <<name[1] - 32>> \o Tail(name)
  ELSE name

PbBasic(t) == [basic |-> t, ref |-> <<>>]
PbRef(name) == [basic |-> "ref", ref |-> name]
PbField(name, id, type, rule, map) ==
  [name |-> name, id |-> id, type |-> type, rule |-> rule, map |-> map]
PbMessage(name, fields) == [name |-> name, kind |-> "message", fields |-> fields, values |-> <<>>]
PbEnum(name, values) == [name |-> name, kind |-> "enum", fields |-> <<>>, values |-> values]

\* the types registered in a protobuf.Root so far, in registration order
RootHas(root, name) == \E i \in 1..Len(root) : root[i].name = name
RootGet(root, name) == root[CHOOSE i \in 1..Len(root) : root[i].name = name]

Built(err, out, root) == [err |-> err, out |-> out, root |-> root]
\* a root that takes a second type of a name it already holds
RootAddAgain(root, type, out) == Built("", out, Append(root, type))
\* root.add(type): protobufjs refuses a second type of the same name
RootAdd(root, type, out) ==
  IF RootHas(root, type.name) THEN Built("duplicate name", out, root)
  ELSE Built("", out, Append(root, type))

RECURSIVE UnwrapEffects(_, _)
UnwrapEffects(S, id) ==
  IF S.nodes[id].kind = "ZodEffects" THEN UnwrapEffects(S, S.nodes[id].kids[1]) ELSE id

RECURSIVE zodTypeToProtobufType(_, _, _, _), convertZodTypeToProtobufField(_, _, _, _, _),
          convertShape(_, _, _, _, _, _, _)
\* root.add(nestedMessage) once the fields of the nested shape are converted
registerMessage(r, nestedMessageName) ==
  IF r.err # "" THEN Built(r.err, PbBasic(""), r.root)
  ELSE RootAdd(r.root, PbMessage(nestedMessageName, r.out), PbRef(nestedMessageName))

\* zodTypeToProtobufType(schema, fieldName, root): the protobuf type string
zodTypeToProtobufType(S, id0, fieldName, root) ==
  LET n == S.nodes[UnwrapEffects(S, id0)] IN
  CASE n.kind \in {"ZodOptional", "ZodNullable", "ZodArray", "ZodDefault"} ->
         zodTypeToProtobufType(S, n.kids[1], fieldName, root)
    [] n.kind = "ZodString" -> Built("", PbBasic("string"), root)
    [] n.kind = "ZodNumber" -> Built("", PbBasic(IF n.int THEN "int32" ELSE "double"), root)
    [] n.kind = "ZodBoolean" -> Built("", PbBasic("bool"), root)
    [] n.kind = "ZodObject" ->
         registerMessage(convertShape(S, n.keys, n.kids, 1, 1, root, <<>>),
                         Capitalize(fieldName) \o n_Message)
    [] n.kind = "ZodEnum" ->
         RootAdd(root, PbEnum(Capitalize(fieldName) \o n_Enum, n.vals),
                 PbRef(Capitalize(fieldName) \o n_Enum))
    [] n.kind = "ZodRecord" -> zodTypeToProtobufType(S, n.kids[2], fieldName, root)
    [] n.kind = "ZodBigInt" -> Built("", PbBasic("int64"), root)
    [] n.kind = "ZodUnion" /\ Len(n.kids) > 0 ->
         zodTypeToProtobufType(S, n.kids[1], fieldName, root)
    [] n.kind = "ZodLiteral" /\ n.vals[1].t \in {"string", "number", "boolean"} ->
         Built("", PbBasic(CASE n.vals[1].t = "string" -> "string"
                             [] n.vals[1].t = "number" -> "double"
                             [] OTHER -> "bool"), root)
    [] OTHER -> Built("Unsupported Zod type", PbBasic(""), root)

\* the schema of a field once effects, optional and nullable are unwrapped
FieldSchema(S, id0) ==
  LET e == UnwrapEffects(S, id0)
      o == IF S.nodes[e].kind = "ZodOptional" THEN S.nodes[e].kids[1] ELSE e
  IN IF S.nodes[o].kind = "ZodNullable" THEN S.nodes[o].kids[1] ELSE o
\* isOptional: an optional or a nullable was unwrapped
FieldIsOptional(S, id0) ==
  LET e == UnwrapEffects(S, id0)
      o == IF S.nodes[e].kind = "ZodOptional" THEN S.nodes[e].kids[1] ELSE e
  IN S.nodes[e].kind = "ZodOptional" \/ S.nodes[o].kind = "ZodNullable"

\* new protobuf.MapField(name, fieldNumber, 'string', valuePbType)
convertMapField(name, fieldNumber, val) ==
  IF val.err # "" THEN val
  ELSE Built("", PbField(name, fieldNumber, val.out, "", TRUE), val.root)

\* convertZodTypeToProtobufField once pbType is known: a map field for a
\* record, else a field with its rule
convertTyped(S, name, fieldNumber, n, isOptional, pb) ==
  IF pb.err # "" THEN pb
  ELSE IF n.kind = "ZodRecord"
  THEN IF S.nodes[n.kids[1]].kind # "ZodString"
       THEN Built("Map keys must be strings", PbBasic(""), pb.root)
       ELSE convertMapField(name, fieldNumber,
                            zodTypeToProtobufType(S, n.kids[2], name \o n_Value, pb.root))
  ELSE Built("", PbField(name, fieldNumber, pb.out,
                         IF n.kind = "ZodArray" THEN "repeated"
                         ELSE IF isOptional THEN "optional" ELSE "", FALSE), pb.root)

\* convertZodTypeToProtobufField(name, fieldNumber, schema, root)
convertZodTypeToProtobufField(S, name, fieldNumber, id0, root) ==
  convertTyped(S, name, fieldNumber, S.nodes[FieldSchema(S, id0)], FieldIsOptional(S, id0),
               zodTypeToProtobufType(S, FieldSchema(S, id0), name, root))

\* messageType.add(field); fieldNumber++
convertRestSkipping(f, S, keys, kids, i, fieldNumber, acc) ==
  IF f.err # "" THEN f
  ELSE convertShape(S, keys, kids, i + 1, fieldNumber + 2, f.root, Append(acc, f.out))
convertRest(f, S, keys, kids, i, fieldNumber, acc) ==
  IF f.err # "" THEN f
  ELSE convertShape(S, keys, kids, i + 1, fieldNumber + 1, f.root, Append(acc, f.out))

\* for (const [key, fieldSchema] of Object.entries(shape)) ... fieldNumber++
convertShape(S, keys, kids, i, fieldNumber, root, acc) ==
  IF i > Len(keys) THEN Built("", acc, root)
  ELSE convertRest(convertZodTypeToProtobufField(S, keys[i], fieldNumber, kids[i], root),
                   S, keys, kids, i, fieldNumber, acc)

\* the field number of the reserved version field
VersionFieldNumber == 1
\* the first field number given to a field of the root schema
FirstUserFieldNumber == 2

\* root.add(messageType) once the fields of the root shape are converted
registerRoot(r) ==
  IF r.err # "" THEN r
  ELSE RootAdd(r.root, PbMessage(n_EncodedState, r.out), PbMessage(n_EncodedState, r.out))

\* zodToProtobuf(schema): out is the EncodedState message type, root holds
\* every type of the descriptor (EncodedState registered last).
zodToProtobuf(S) ==
  LET n == S.nodes[UnwrapEffects(S, S.root)] IN
  IF n.kind # "ZodObject" THEN Built("Root schema must be a ZodObject", PbBasic(""), <<>>)
  ELSE registerRoot(convertShape(S, n.keys, n.kids, 1, FirstUserFieldNumber, <<>>,
         <<PbField(RESERVED_FIELD, VersionFieldNumber, PbBasic("uint32"), "optional", FALSE)>>))

\* ------------------------------------------------------ protobuf wire format
Pow2(n) == 2 ^ n

RECURSIVE WriteVarint(_)
\* writer.uint32(n), n >= 0: base-128 groups, low group first
WriteVarint(n) ==
  IF n < 128 THEN <<n>> ELSE <<128 + (n % 128)>> \o WriteVarint(n \div 128)

RECURSIVE SignExtended(_, _)
SignExtended(n, groups) ==
  IF groups = 0 THEN <<1>>
  ELSE <<128 + (n % 128)>> \o SignExtended(n \div 128, groups - 1)

\* writer.int32(n): a negative value is written as its 64-bit two's
\* complement, nine continued groups and the top bit
WriteInt32(n) == IF n < 0 THEN SignExtended(n, 9) ELSE WriteVarint(n)

WriteTag(id, wt) == WriteVarint(id * 8 + wt)

Log2Floor(m) == CHOOSE e \in 0..12 : Pow2(e) <= m /\ m < Pow2(e + 1)

\* writer.double(n) for an integer |n| < 2^13: IEEE-754 binary64, little endian
Float64LE(n) ==
  IF n = 0 THEN <<0, 0, 0, 0, 0, 0, 0, 0>>
  ELSE LET m == IF n < 0 THEN 0 - n ELSE n
           e == Log2Floor(m)
           biased == e + 1023
           mant12 == ((m - Pow2(e)) * 4096) \div Pow2(e)
       IN <<0, 0, 0, 0, 0, mant12 % 256, (biased % 16) * 16 + (mant12 \div 256),
            (IF n < 0 THEN 128 ELSE 0) + (biased \div 16)>>

\* reader.double(): the integer the eight bytes stand for, or the raw bytes
\* of a number the model has no integer for
DecodeFloat64(b) ==
  LET biased == (b[8] % 128) * 16 + (b[7] \div 16)
      e == biased - 1023
      mant12 == (b[7] % 16) * 256 + b[6]
      m == Pow2(e) + (mant12 * Pow2(e)) \div 4096
      n == IF b[8] >= 128 THEN 0 - m ELSE m
  IN IF b = <<0, 0, 0, 0, 0, 0, 0, 0>> THEN Num(0)
     ELSE IF e >= 0 /\ e <= 12 /\ Float64LE(n) = b THEN Num(n)
     ELSE [t |-> "float64", v |-> b]

Read(err, val, pos) == [err |-> err, val |-> val, pos |-> pos]

\* reader.uint32(): up to five groups make the value, a longer varint has
\* five more bytes skipped; running off the buffer throws.  val is the low
\* 28 bits and the top 4 bits apart.
RECURSIVE ReadVarint(_, _, _, _)
ReadVarint(buf, p, i, lo) ==
  IF p > Len(buf) THEN Read("index out of range", <<0, 0>>, p)
  ELSE LET b == buf[p] IN
       IF i < 4
       THEN LET acc == lo + (b % 128) * Pow2(7 * i) IN
            IF b < 128 THEN Read("", <<acc, 0>>, p + 1)
            ELSE ReadVarint(buf, p + 1, i + 1, acc)
       ELSE IF b < 128 THEN Read("", <<lo, b % 16>>, p + 1)
       ELSE IF p + 5 > Len(buf) THEN Read("index out of range", <<0, 0>>, Len(buf) + 1)
       ELSE Read("", <<lo, b % 16>>, p + 6)

\* reader.uint32(): the low 28 bits and the high 4 bits put together.  A value
\* of 2^31 or more is held as one of the eight largest 31-bit numbers with the
\* same three low bits: as a length it is past the end of every buffer, as a
\* tag it keeps its wire type and names a field no descriptor has, as a
\* boolean it is true.
ReadUint32(buf, p) ==
  LET r == ReadVarint(buf, p, 0, 0) IN
  IF r.err # "" THEN Read(r.err, 0, r.pos)
  ELSE IF r.val[2] >= 8 THEN Read("", 2147483640 + (r.val[1] % 8), r.pos)
  ELSE Read("", r.val[1] + r.val[2] * Pow2(28), r.pos)

\* reader.int32() is reader.uint32() | 0
ReadInt32(buf, p) ==
  LET r == ReadVarint(buf, p, 0, 0) IN
  IF r.err # "" THEN Read(r.err, 0, r.pos)
  ELSE Read("", r.val[1] + (IF r.val[2] >= 8 THEN r.val[2] - 16 ELSE r.val[2]) * Pow2(28), r.pos)

\* reader.skip(): skip one varint
RECURSIVE SkipVarint(_, _)
SkipVarint(buf, p) ==
  IF p > Len(buf) THEN Read("index out of range", 0, p)
  ELSE IF buf[p] >= 128 THEN SkipVarint(buf, p + 1)
  ELSE Read("", 0, p + 1)

\* reader.skip(length)
SkipBytes(buf, p, length) ==
  IF length > Len(buf) + 1 - p THEN Read("index out of range", 0, p)
  ELSE Read("", 0, p + length)

\* reader.skipType(wireType); a group is skipped field by field to its end tag
RECURSIVE SkipType(_, _, _)
SkipType(buf, p, wireType) ==
  CASE wireType = 0 -> SkipVarint(buf, p)
    [] wireType = 1 -> SkipBytes(buf, p, 8)
    [] wireType = 2 ->
         LET l == ReadUint32(buf, p) IN
         IF l.err # "" THEN l ELSE SkipBytes(buf, l.pos, l.val)
    [] wireType = 3 ->
         LET t == ReadUint32(buf, p) IN
         IF t.err # "" THEN t
         ELSE IF t.val % 8 = 4 THEN Read("", 0, t.pos)
         ELSE LET s == SkipType(buf, t.pos, t.val % 8) IN
              IF s.err # "" THEN s ELSE SkipType(buf, s.pos, 3)
    [] wireType = 5 -> SkipBytes(buf, p, 4)
    [] OTHER -> Read("invalid wire type", 0, p)

\* -------------------------------------------------- protobufjs messages
Conv(err, out) == [err |-> err, out |-> out]
IsNullish(x) == x.t \in {"undefined", "null"}
IsEnum(root, type) == type.basic = "ref" /\ RootGet(root, type.ref).kind = "enum"
IsMessage(root, type) == type.basic = "ref" /\ RootGet(root, type.ref).kind = "message"
\* the field types protobufjs writes packed when repeated
IsPackable(root, type) ==
  type.basic \in {"int32", "uint32", "bool", "double", "int64"} \/ IsEnum(root, type)

\* The wire type in a tag's low three bits: varint 0, 64-bit 1, length-
\* delimited 2; an enum travels as int32.
WT(root, type) ==
  IF type.basic \in {"int32", "uint32", "bool", "int64"} \/ IsEnum(root, type) THEN 0
  ELSE IF type.basic = "double" THEN 1
  ELSE 2

\* the nearest bound of the 32-bit range in place of the low 32 bits
Int32Clamped(x) ==
  IF x.q > 0 THEN Num(2147483647) ELSE IF x.q < 0 THEN Num(0 - 2147483647) ELSE x
\* d.field | 0: the low 32 bits as a signed integer
ToInt32(x) == Num(x.v)

\* Type.fromObject: one value of a field converted for the message.  The
\* data has passed schema.parse, so a scalar already has its field's type.
RECURSIVE FromObject(_, _, _), FromObjectFields(_, _, _, _, _), FromObjectItems(_, _, _, _, _),
          FromObjectNextItem(_, _, _, _, _, _), FromObjectNextField(_, _, _, _, _, _)
FromObjectValue(root, type, x) ==
  IF IsMessage(root, type)
  THEN IF x.t \notin {"object", "array"} THEN Conv("object expected", Undef)
       ELSE FromObject(root, RootGet(root, type.ref), IF x.t = "array" THEN Obj(<<>>) ELSE x)
  ELSE IF IsEnum(root, type)
  THEN LET i == IF x.t = "string" THEN IndexOf(RootGet(root, type.ref).values, x.v) ELSE 0 IN
       IF i > 0 THEN Conv("", Num(i - 1)) ELSE Conv("", Undef)
  ELSE CASE type.basic = "string" /\ x.t = "string" -> Conv("", x)
         [] type.basic = "int32" /\ x.t = "number" -> Conv("", ToInt32(x))
         [] type.basic = "double" /\ x.t = "number" /\ x.q = 0 -> Conv("", x)
         [] type.basic = "uint32" /\ x.t = "number" /\ x.v >= 0 -> Conv("", x)
         [] type.basic = "bool" /\ x.t = "boolean" -> Conv("", x)
FromObjectItems(root, type, items, i, acc) ==
  IF i > Len(items) THEN Conv("", Arr(acc))
  ELSE FromObjectNextItem(FromObjectValue(root, type, items[i]), root, type, items, i, acc)
FromObjectNextItem(r, root, type, items, i, acc) ==
  IF r.err # "" THEN r ELSE FromObjectItems(root, type, items, i + 1, Append(acc, r.out))
\* one field of the message: a null or undefined property is skipped
FromObjectField(root, f, x) ==
  IF IsNullish(x) THEN Conv("", Undef)
  ELSE IF f.rule = "repeated"
  THEN IF x.t # "array" THEN Conv("array expected", Undef)
       ELSE FromObjectItems(root, f.type, x.v, 1, <<>>)
  ELSE FromObjectValue(root, f.type, x)
FromObjectFields(root, fields, d, i, acc) ==
  IF i > Len(fields) THEN Conv("", Obj(acc))
  ELSE FromObjectNextField(FromObjectField(root, fields[i], Get(d, fields[i].name)),
                           root, fields, d, i, acc)
FromObjectNextField(r, root, fields, d, i, acc) ==
  IF r.err # "" THEN r
  ELSE FromObjectFields(root, fields, d, i + 1,
         IF r.out.t = "undefined" THEN acc ELSE Append(acc, Prop(fields[i].name, r.out)))
FromObject(root, type, d) == FromObjectFields(root, type.fields, d, 1, <<>>)

\* Type.encode(message).finish(): fields in field-number order, a field
\* written only when the message has it (a repeated one when non-empty)
RECURSIVE PbEncode(_, _, _), PbEncodeFields(_, _, _, _), PbEncodeItems(_, _, _, _, _)
\* a length-delimited value: its length as a varint, then its bytes
LengthDelimited(body) == WriteVarint(Len(body)) \o body
PbEncodeValue(root, type, x) ==
  IF IsMessage(root, type)
  THEN LengthDelimited(PbEncode(root, RootGet(root, type.ref), x))
  ELSE IF IsEnum(root, type) THEN WriteInt32(x.v)
  ELSE CASE type.basic = "string" -> LengthDelimited(x.v)
         [] type.basic = "int32" -> WriteInt32(x.v)
         [] type.basic = "uint32" -> WriteVarint(x.v)
         [] type.basic = "bool" -> IF x.v THEN <<1>> ELSE <<0>>
         [] type.basic = "double" -> Float64LE(x.v)
PbEncodeItems(root, f, items, i, tagged) ==
  IF i > Len(items) THEN <<>>
  ELSE (IF tagged THEN WriteTag(f.id, WT(root, f.type)) ELSE <<>>)
       \o PbEncodeValue(root, f.type, items[i])
       \o PbEncodeItems(root, f, items, i + 1, tagged)
\* the items of a repeated field: packed into one length-delimited value
\* when the type allows it, else one tagged value each
PackedOrTagged(packed, id, body) ==
  IF packed THEN WriteTag(id, 2) \o LengthDelimited(body) ELSE body
\* one field of the message: written only when the message has it
PbEncodeField(root, f, x) ==
  IF IsNullish(x) THEN <<>>
  ELSE IF f.rule = "repeated"
  THEN IF Len(x.v) = 0 THEN <<>>
       ELSE PackedOrTagged(IsPackable(root, f.type), f.id,
                           PbEncodeItems(root, f, x.v, 1, ~IsPackable(root, f.type)))
  ELSE WriteTag(f.id, WT(root, f.type)) \o PbEncodeValue(root, f.type, x)
PbEncodeFields(root, fields, m, i) ==
  IF i > Len(fields) THEN <<>>
  ELSE PbEncodeField(root, fields[i], Get(m, fields[i].name))
       \o PbEncodeFields(root, fields, m, i + 1)
PbEncode(root, type, m) == PbEncodeFields(root, type.fields, m, 1)

\* Type.decode(reader, length): every tag is looked up by field number and
\* the value read as the field's declared type, whatever the tag's wire
\* type; an unknown field number is skipped by wire type.
FieldById(type, id) ==
  IF \E i \in 1..Len(type.fields) : type.fields[i].id = id
  THEN <<type.fields[CHOOSE i \in 1..Len(type.fields) : type.fields[i].id = id]>>
  ELSE <<>>

RECURSIVE PbDecode(_, _, _, _, _, _), PbDecodeValue(_, _, _, _), PbDecodePacked(_, _, _, _, _, _),
          PbDecodeNextPacked(_, _, _, _, _, _), PbDecodeTag(_, _, _, _, _, _),
          PbDecodeField(_, _, _, _, _, _, _, _), PbDecodeStore(_, _, _, _, _, _, _),
          PbDecodeStorePacked(_, _, _, _, _, _, _), PbDecodePackedField(_, _, _, _, _, _, _),
          PbDecodeSkipped(_, _, _, _, _, _), PbDecodeNested(_, _, _, _)
\* a string of l.val bytes at l.pos
ReadString(buf, l) ==
  IF l.err # "" THEN l
  ELSE IF l.val > Len(buf) + 1 - l.pos THEN Read("index out of range", Undef, l.pos)
  ELSE Read("", Str(SubSeq(buf, l.pos, l.pos + l.val - 1)), l.pos + l.val)
\* the number read, as the JavaScript value of the field
AsNum(r) == Read(r.err, Num(r.val), r.pos)
AsBool(r) == Read(r.err, Bool(r.val # 0), r.pos)
\* end = reader.pos + length: an end past the buffer is never reached, the read
\* before it is out of range, so every such end is held as the same one
EndAt(buf, l) == IF l.val > Len(buf) + 1 - l.pos THEN Len(buf) + 2 ELSE l.pos + l.val
\* Type.decode(reader, reader.uint32()) of a nested message
PbDecodeNested(root, type, buf, l) ==
  IF l.err # "" THEN l
  ELSE PbDecode(root, RootGet(root, type.ref), buf, l.pos, EndAt(buf, l), <<>>)
PbDecodeValue(root, type, buf, p) ==
  IF IsMessage(root, type) THEN PbDecodeNested(root, type, buf, ReadUint32(buf, p))
  ELSE IF IsEnum(root, type) \/ type.basic = "int32" THEN AsNum(ReadInt32(buf, p))
  ELSE CASE type.basic = "string" -> ReadString(buf, ReadUint32(buf, p))
         [] type.basic = "uint32" -> AsNum(ReadUint32(buf, p))
         [] type.basic = "bool" -> AsBool(ReadUint32(buf, p))
         [] type.basic = "double" ->
              IF p + 8 > Len(buf) + 1 THEN Read("index out of range", Undef, p)
              ELSE Read("", DecodeFloat64(SubSeq(buf, p, p + 7)), p + 8)
PbDecodePacked(root, type, buf, p, end, acc) ==
  IF p >= end THEN Read("", acc, p)
  ELSE PbDecodeNextPacked(PbDecodeValue(root, type, buf, p), root, type, buf, end, acc)
PbDecodeNextPacked(r, root, type, buf, end, acc) ==
  IF r.err # "" THEN r ELSE PbDecodePacked(root, type, buf, r.pos, end, Append(acc, r.val))

\* the items the message already holds for a repeated field
Held(acc, name) == IF HasKey(Obj(acc), name) THEN Get(Obj(acc), name).v ELSE <<>>

\* the value read for field f is stored, then the next tag is read
PbDecodeStore(r, root, type, buf, f, end, acc) ==
  IF r.err # "" THEN r
  ELSE PbDecode(root, type, buf, r.pos, end,
         SetKey(Obj(acc), f.name,
                IF f.rule = "repeated" THEN Arr(Append(Held(acc, f.name), r.val)) ELSE r.val).v)
\* the items read from a packed field are stored
PbDecodeStorePacked(r, root, type, buf, f, end, acc) ==
  IF r.err # "" THEN r
  ELSE PbDecode(root, type, buf, r.pos, end, SetKey(Obj(acc), f.name, Arr(r.val)).v)
\* a packed repeated field: its length l, then items up to its end
PbDecodePackedField(l, root, type, buf, f, end, acc) ==
  IF l.err # "" THEN l
  ELSE PbDecodeStorePacked(PbDecodePacked(root, f.type, buf, l.pos, EndAt(buf, l),
                                          Held(acc, f.name)),
                           root, type, buf, f, end, acc)
\* an unknown field has been skipped by wire type
PbDecodeSkipped(s, root, type, buf, end, acc) ==
  IF s.err # "" THEN s ELSE PbDecode(root, type, buf, s.pos, end, acc)
\* switch (tag >>> 3): fs is the field of that number, if any
PbDecodeField(fs, wireType, p, root, type, buf, end, acc) ==
  IF fs = <<>> THEN PbDecodeSkipped(SkipType(buf, p, wireType), root, type, buf, end, acc)
  ELSE IF fs[1].rule = "repeated" /\ IsPackable(root, fs[1].type) /\ wireType = 2
  THEN PbDecodePackedField(ReadUint32(buf, p), root, type, buf, fs[1], end, acc)
  ELSE PbDecodeStore(PbDecodeValue(root, fs[1].type, buf, p), root, type, buf, fs[1], end, acc)
\* the tag t has been read
PbDecodeTag(t, root, type, buf, end, acc) ==
  IF t.err # "" THEN t
  ELSE PbDecodeField(FieldById(type, t.val \div 8), t.val % 8, t.pos, root, type, buf, end, acc)
PbDecode(root, type, buf, p, end, acc) ==
  IF p >= end THEN Read("", Obj(acc), p)
  ELSE PbDecodeTag(ReadUint32(buf, p), root, type, buf, end, acc)

\* Type.toObject(message, { enums: String, defaults: false, arrays: true,
\* objects: true, ... }): a repeated field is always an array, a singular
\* field is copied only when the message has it
RECURSIVE ToObject(_, _, _)
ToObjectValue(root, type, x) ==
  IF IsMessage(root, type) THEN ToObject(root, RootGet(root, type.ref), x)
  ELSE IF IsEnum(root, type)
  THEN LET values == RootGet(root, type.ref).values IN
       IF x.v >= 0 /\ x.v < Len(values) THEN Str(values[x.v + 1]) ELSE x
  ELSE x
ToObject(root, type, m) ==
  LET has(f) == f.rule = "repeated" \/ f.map \/ HasKey(m, f.name)
      conv(f) ==
        IF f.map THEN Obj(<<>>)
        ELSE IF f.rule = "repeated"
        THEN LET items == IF HasKey(m, f.name) THEN Get(m, f.name).v ELSE <<>> IN
             Arr([i \in 1..Len(items) |-> ToObjectValue(root, f.type, items[i])])
        ELSE ToObjectValue(root, f.type, Get(m, f.name))
      kept == SelectSeq(type.fields, has)
  IN Obj([i \in 1..Len(kept) |-> Prop(kept[i].name, conv(kept[i]))])

\* ------------------------------------------------------------ compression
RECURSIVE AdlerSums(_, _, _, _)
AdlerSums(data, i, a, b) ==
  IF i > Len(data) THEN <<a, b>>
  ELSE LET a2 == (a + data[i]) % 65521 IN AdlerSums(data, i + 1, a2, (b + a2) % 65521)
\* the four big-endian bytes of the Adler-32 checksum that ends a zlib stream
Adler32(data) ==
  LET ab == AdlerSums(data, 1, 1, 0) IN
  <<ab[2] \div 256, ab[2] % 256, ab[1] \div 256, ab[1] % 256>>

\* The DEFLATE body of the stream, modelled as run-length coding: one
\* (count, byte) pair per run of equal bytes, closed by an end marker 0.
\* It stands for LZ77's back-references: lossless, and shorter than the
\* input only when the input repeats itself.
RECURSIVE RunLength(_, _)
RunLength(data, i) ==
  IF i > Len(data) THEN <<0>>
  ELSE LET n == CHOOSE k \in 1..(Len(data) - i + 1) :
                  /\ \A j \in i..(i + k - 1) : data[j] = data[i]
                  /\ (i + k > Len(data) \/ data[i + k] # data[i])
       IN <<n, data[i]>> \o RunLength(data, i + n)

\* compress(data): zlib.deflateSync -- the two header bytes 0x78 0x9C, the
\* body, the checksum of the uncompressed data
compress(data) == <<120, 156>> \o RunLength(data, 1) \o Adler32(data)

Inflated(err, out) == [err |-> err, out |-> out]
RECURSIVE Expand(_, _, _)
Expand(buf, p, acc) ==
  IF p > Len(buf) THEN Inflated("unexpected end of file", <<>>)
  ELSE IF buf[p] = 0
  THEN IF p + 4 > Len(buf) THEN Inflated("unexpected end of file", <<>>)
       ELSE IF SubSeq(buf, p + 1, p + 4) # Adler32(acc) THEN Inflated("incorrect data check", <<>>)
       ELSE Inflated("", acc)
  ELSE IF p + 1 > Len(buf) THEN Inflated("unexpected end of file", <<>>)
  ELSE Expand(buf, p + 2, acc \o [i \in 1..buf[p] |-> buf[p + 1]])

\* decompress(data): zlib.inflateSync; every failure is rethrown as
\* CompressionError('Decompression failed')
decompress(data) ==
  IF Len(data) < 2 THEN Inflated("unexpected end of file", <<>>)
  ELSE IF data[1] % 16 # 8 \/ (data[1] * 256 + data[2]) % 31 # 0
  THEN Inflated("incorrect header check", <<>>)
  ELSE Expand(data, 3, <<>>)

\* -------------------------------------------------------------- base64url
Base64Alphabet ==
  <<"A", "B", "C", "D", "E", "F", "G", "H", "I", "J", "K", "L", "M", "N", "O", "P",
    "Q", "R", "S", "T", "U", "V", "W", "X", "Y", "Z", "a", "b", "c", "d", "e", "f",
    "g", "h", "i", "j", "k", "l", "m", "n", "o", "p", "q", "r", "s", "t", "u", "v",
    "w", "x", "y", "z", "0", "1", "2", "3", "4", "5", "6", "7", "8", "9", "+", "/">>

\* Buffer.from(data).toString('base64'): three bytes make four characters,
\* a last group of one or two bytes is padded with '='
RECURSIVE ToBase64(_)
ToBase64(data) ==
  LET c(n) == Base64Alphabet[n + 1] IN
  IF Len(data) = 0 THEN <<>>
  ELSE IF Len(data) = 1
  THEN <<c(data[1] \div 4), c((data[1] % 4) * 16), "=", "=">>
  ELSE IF Len(data) = 2
  THEN <<c(data[1] \div 4), c((data[1] % 4) * 16 + data[2] \div 16), c((data[2] % 16) * 4), "=">>
  ELSE <<c(data[1] \div 4), c((data[1] % 4) * 16 + data[2] \div 16),
         c((data[2] % 16) * 4 + data[3] \div 64), c(data[3] % 64)>>
       \o ToBase64(SubSeq(data, 4, Len(data)))

Replace(text, from, to) == [i \in 1..Len(text) |-> IF text[i] = from THEN to ELSE text[i]]

\* encodeBase64Url(data)
encodeBase64Url(data) ==
  SelectSeq(Replace(Replace(ToBase64(data), "+", "-"), "/", "_"), LAMBDA ch : ch # "=")

\* Buffer.from(base64, 'base64'): never throws; decoding stops at the first
\* '=', other characters outside the alphabet are skipped, and the bits of
\* an incomplete last byte are dropped
RECURSIVE Sextets(_, _)
Sextets(text, i) ==
  IF i > Len(text) \/ text[i] = "=" THEN <<>>
  ELSE LET ch == IF text[i] = "-" THEN "+" ELSE IF text[i] = "_" THEN "/" ELSE text[i] IN
       (IF IndexOf(Base64Alphabet, ch) > 0 THEN <<IndexOf(Base64Alphabet, ch) - 1>> ELSE <<>>)
       \o Sextets(text, i + 1)
RECURSIVE FromSextets(_)
FromSextets(x) ==
  IF Len(x) < 2 THEN <<>>
  ELSE IF Len(x) = 2 THEN <<x[1] * 4 + x[2] \div 16>>
  ELSE IF Len(x) = 3 THEN <<x[1] * 4 + x[2] \div 16, (x[2] % 16) * 16 + x[3] \div 4>>
  ELSE <<x[1] * 4 + x[2] \div 16, (x[2] % 16) * 16 + x[3] \div 4, (x[3] % 4) * 64 + x[4]>>
       \o FromSextets(SubSeq(x, 5, Len(x)))

\* decodeBase64Url(encoded)
decodeBase64Url(encoded) ==
  LET base64 == Replace(Replace(encoded, "-", "+"), "_", "/")
      padding == (4 - (Len(base64) % 4)) % 4
  IN FromSextets(Sextets(base64 \o [i \in 1..padding |-> "="], 1))

\* ------------------------------------------------------------------ encode
\* The outcome of a call: what it returned, or the class of what it threw,
\* and the pipeline steps it ran (the step that threw is the last).
Returned(out, version, binary, steps) ==
  [ok |-> TRUE, err |-> "", msg |-> "", out |-> out, version |-> version,
   binary |-> binary, steps |-> steps]
Threw(err, msg, steps) ==
  [ok |-> FALSE, err |-> err, msg |-> msg, out |-> Undef, version |-> 0,
   binary |-> <<>>, steps |-> steps]
NoCall ==
  [ok |-> FALSE, err |-> "none", msg |-> "", out |-> Undef, version |-> 0,
   binary |-> <<>>, steps |-> <<>>]

\* the version field written whatever the version
WithVersionAlways(validated, version) == SetKey(validated, RESERVED_FIELD, Num(version))

\* version === 1 ? validated : { ...validated, [RESERVED_FIELD]: version }
WithVersion(validated, version) ==
  IF version = 1 THEN validated ELSE SetKey(validated, RESERVED_FIELD, Num(version))

\* the compressed form chosen on a tie as well
MarkedPayloadOnTie(binary, compressed) ==
  IF Len(compressed) <= Len(binary) THEN <<1>> \o compressed ELSE <<0>> \o binary
\* the marker byte and what follows it: compressed only when strictly shorter
MarkedPayload(binary, compressed) ==
  IF Len(compressed) < Len(binary) THEN <<1>> \o compressed ELSE <<0>> \o binary
AdaptiveCompress(binary) == MarkedPayload(binary, compress(binary))

\* encodeInternal, steps 6 and 7: compress when it pays, base64url
encodeBinary(binary, version) ==
  Returned(encodeBase64Url(AdaptiveCompress(binary)), version, binary,
           <<"validateSchema", "schema.parse", "zodToProtobuf", "fromObject",
             "pbType.encode", "compress", "encodeBase64Url">>)

\* encodeInternal, step 5: pbType.encode(message).finish()
encodeMessage(message, pbType, version) ==
  IF message.err # ""
  THEN Threw("TypeError", message.err,
             <<"validateSchema", "schema.parse", "zodToProtobuf", "fromObject">>)
  ELSE encodeBinary(PbEncode(pbType.root, pbType.out, message.out), version)

\* encodeInternal, step 4: the descriptor, then pbType.fromObject(withVersion)
encodeTyped(withVersion, pbType, version) ==
  IF pbType.err # ""
  THEN Threw("Error", pbType.err, <<"validateSchema", "schema.parse", "zodToProtobuf">>)
  ELSE encodeMessage(FromObject(pbType.root, pbType.out, withVersion), pbType, version)

\* encodeInternal, steps 2 and 3: the outcome of schema.parse, the object
\* test, the version field
encodeParsed(parsed, S, version) ==
  IF ~parsed.ok
  THEN Threw("ZodError", "invalid data", <<"validateSchema", "schema.parse">>)
  ELSE IF parsed.val.t # "object"
  THEN Threw("ValidationError", "Encoded data must be an object",
             <<"validateSchema", "schema.parse">>)
  ELSE encodeTyped(WithVersion(parsed.val, version), zodToProtobuf(S), version)

\* encodeInternal(data, schema, version)
encodeInternal(data, S, version) ==
  IF validateSchemaThrows(S)
  THEN Threw("ValidationError", "reserved field", <<"validateSchema">>)
  ELSE encodeParsed(ZodParse(S, S.root, data), S, version)

\* ------------------------------------------------------------------ decode
\* the steps of decodeInternal up to the marker's handling
DecodeSteps(marker) ==
  <<"validateSchema", "decodeBase64Url">> \o (IF marker = 1 THEN <<"decompress">> ELSE <<>>)

\* decodeInternal, step 6: schema.parse(dataWithoutVersion)
decodeValidated(validated, finalVersion, binary, steps) ==
  IF ~validated.ok THEN Threw("ZodError", "invalid data", steps)
  ELSE Returned(validated.val, finalVersion, binary, steps)

\* decodeInternal, step 5: the version is taken out, 1 when the field is absent
decodeObject(decodedObj, binary, steps, S) ==
  decodeValidated(ZodParse(S, S.root, DropKey(decodedObj, RESERVED_FIELD)),
                  IF Get(decodedObj, RESERVED_FIELD).t = "undefined" THEN 1
                  ELSE Get(decodedObj, RESERVED_FIELD).v,
                  binary, steps)

\* decodeInternal, step 4: the outcome of pbType.decode, then pbType.toObject
decodeMessage(decoded, pbType, binary, steps, S) ==
  IF decoded.err # ""
  THEN Threw("DecodingError", "Failed to decode protobuf message",
             steps \o <<"zodToProtobuf", "pbType.decode">>)
  ELSE decodeObject(ToObject(pbType.root, pbType.out, decoded.val), binary,
                    steps \o <<"zodToProtobuf", "pbType.decode", "toObject", "schema.parse">>, S)

\* decodeInternal, step 3: the descriptor
decodeBinary(binary, pbType, steps, S) ==
  IF pbType.err # ""
  THEN Threw("Error", pbType.err, Append(steps, "zodToProtobuf"))
  ELSE decodeMessage(PbDecode(pbType.root, pbType.out, binary, 1, Len(binary) + 1, <<>>),
                     pbType, binary, steps, S)

\* decodeInternal, step 2, compressed payload: the outcome of decompress
decodeInflated(inflated, steps, S) ==
  IF inflated.err # ""
  THEN Threw("CompressionError", "Decompression failed", steps)
  ELSE decodeBinary(inflated.out, zodToProtobuf(S), steps, S)

\* every marker other than 0x01 read as "not compressed"
decodeMarkedLenient(dataWithMarker, S) ==
  IF Len(dataWithMarker) = 0
  THEN Threw("DecodingError", "Invalid compression marker", DecodeSteps(0))
  ELSE decodeInflated(IF dataWithMarker[1] = 1 THEN decompress(Tail(dataWithMarker))
                      ELSE Inflated("", Tail(dataWithMarker)),
                      DecodeSteps(dataWithMarker[1]), S)
\* decodeInternal, step 2: the marker; dataWithMarker[0] of an empty buffer
\* is undefined
decodeMarked(dataWithMarker, S) ==
  IF Len(dataWithMarker) = 0 \/ dataWithMarker[1] \notin {0, 1}
  THEN Threw("DecodingError", "Invalid compression marker", DecodeSteps(0))
  ELSE decodeInflated(IF dataWithMarker[1] = 1 THEN decompress(Tail(dataWithMarker))
                      ELSE Inflated("", Tail(dataWithMarker)),
                      DecodeSteps(dataWithMarker[1]), S)

\* decodeInternal(encoded, schema): out is the validated data
decodeInternal(encoded, S) ==
  IF validateSchemaThrows(S)
  THEN Threw("ValidationError", "reserved field", <<"validateSchema">>)
  ELSE decodeMarked(decodeBase64Url(encoded), S)

\* decodeWithVersion(encoded, schema) returns decodeInternal's data and version
decodeWithVersion(encoded, S) == decodeInternal(encoded, S)

\* the version field's protobuf default in place of 1
VersionOr0(r) == IF r.ok THEN r.version ELSE 0
\* version of the outcome of decodeWithVersion, 1 when it threw
VersionOr1(r) == IF r.ok THEN r.version ELSE 1
\* getVersion(encoded, schema): the version, or 1 when decoding throws
getVersion(encoded, S) == VersionOr1(decodeWithVersion(encoded, S))

\* encode(data, schema, version = 1): versionArg is <<>> when the caller
\* leaves the version out
encode(data, S, versionArg) ==
  encodeInternal(data, S, IF versionArg = <<>> THEN 1 ELSE versionArg[1])

\* ---------------------------------------------------------- safeParse mode
\* A result object: data and version hold one element when the property is
\* there and none when it is undefined; error holds the caught error's name
\* and message.
\* the catch branch: { success: false, error }
SafeFailureWithData(r) ==
  [success |-> FALSE, data |-> <<r.out>>, version |-> <<>>, error |-> <<r.err, r.msg>>]
SafeFailure(r) ==
  [success |-> FALSE, data |-> <<>>, version |-> <<>>, error |-> <<r.err, r.msg>>]
\* encode's try branch: { success: true, data: result }
EncodeResult(r) ==
  IF r.ok THEN [success |-> TRUE, data |-> <<r.out>>, version |-> <<>>, error |-> <<>>]
  ELSE SafeFailure(r)
\* decode's try branch: { success: true, data, version }
DecodeResult(r) ==
  IF r.ok
  THEN [success |-> TRUE, data |-> <<r.out>>, version |-> <<r.version>>, error |-> <<>>]
  ELSE SafeFailure(r)
\* encode(data, schema, version, { safeParse: true })
encodeSafe(data, S, versionArg) ==
  EncodeResult(encodeInternal(data, S, IF versionArg = <<>> THEN 1 ELSE versionArg[1]))
\* decode(encoded, schema, { safeParse: true })
decodeSafe(encoded, S) == DecodeResult(decodeInternal(encoded, S))


\* ------------------------------------------------------- the 2-byte header
\* format.ts.  A flag the caller may leave out is <<>> when left out and
\* <<b>> when given; the outcome of a call is a record with ok and err.
RECURSIVE BitAnd(_, _)
BitAnd(a, b) ==
  IF a = 0 \/ b = 0 THEN 0
  ELSE (a % 2) * (b % 2) + 2 * BitAnd(a \div 2, b \div 2)
RECURSIVE BitOr(_, _)
BitOr(a, b) ==
  IF a = 0 THEN b ELSE IF b = 0 THEN a
  ELSE (IF a % 2 = 1 \/ b % 2 = 1 THEN 1 ELSE 0) + 2 * BitOr(a \div 2, b \div 2)
\* a >> n and a << n of a non-negative a
ShiftRight(a, n) == a \div Pow2(n)
ShiftLeft(a, n) == a * Pow2(n)

FLAGS_COMPRESSED == 64
FLAGS_STRING_DICTIONARY == 16
FLAGS_BOOLEAN_PACKING == 32

\* if (option) byte |= flag: an option left out is falsy
Truthy(option) == option = <<TRUE>>
SetFlag(byte, option, flag) == IF Truthy(option) THEN BitOr(byte, flag) ELSE byte

HeaderThrew(msg) ==
  [ok |-> FALSE, err |-> msg, bytes |-> <<>>, version |-> 0, compressed |-> FALSE,
   stringDictionary |-> FALSE, booleanPacking |-> FALSE, payload |-> <<>>]
NoHeaderCall == HeaderThrew("none")
Framed(bytes) == [NoHeaderCall EXCEPT !.ok = TRUE, !.err = "", !.bytes = bytes]
Unframed(version, compressed, stringDictionary, booleanPacking, payload) ==
  [ok |-> TRUE, err |-> "", bytes |-> <<>>, version |-> version,
   compressed |-> compressed, stringDictionary |-> stringDictionary,
   booleanPacking |-> booleanPacking, payload |-> payload]

\* the version check without its upper bound
VersionAccepted0Up(version) == ~(version < 0)
\* the version check of encodeWithHeader
VersionAccepted(version) == ~(version < 0 \/ version > 1023)

\* encodeWithHeader(payload, version, options)
encodeWithHeader(payload, version, options) ==
  IF ~VersionAccepted(version) THEN HeaderThrew("Version must be 0-1023")
  ELSE Framed(<<SetFlag(BitAnd(version, 63), <<options.compressed>>, FLAGS_COMPRESSED),
                SetFlag(SetFlag(BitAnd(ShiftRight(version, 6), 15),
                                options.stringDictionary, FLAGS_STRING_DICTIONARY),
                        options.booleanPacking, FLAGS_BOOLEAN_PACKING)>> \o payload)

\* the version read from its lower six bits alone
HeaderVersionLowerOnly(byte0, byte1) == BitAnd(byte0, 63)
\* versionLower | (versionUpper << 6)
HeaderVersion(byte0, byte1) == BitOr(BitAnd(byte0, 63), ShiftLeft(BitAnd(byte1, 15), 6))

\* decodeWithHeader(encoded)
decodeWithHeader(encoded) ==
  IF Len(encoded) < 2 THEN HeaderThrew("Encoded data too short - missing header")
  ELSE Unframed(HeaderVersion(encoded[1], encoded[2]),
                BitAnd(encoded[1], FLAGS_COMPRESSED) # 0,
                BitAnd(encoded[2], FLAGS_STRING_DICTIONARY) # 0,
                BitAnd(encoded[2], FLAGS_BOOLEAN_PACKING) # 0,
                SubSeq(encoded, 3, Len(encoded)))

\* -------------------------------------------------------------- migrations
\* A migration is a pair of pure functions.  The ones of the model work on
\* the integer field n: up is n -> 2n + c, down is n -> 3n + c, and a
\* migration with field = TRUE also adds the string field a going up and
\* removes it going down.  An empty slot of the array is Absent.
Migration(c, field) == [present |-> TRUE, c |-> c, field |-> field]
Absent == [present |-> FALSE, c |-> 0, field |-> FALSE]

MigrationUp(m, data) ==
  LET stepped == SetKey(data, k_n, Num(2 * Get(data, k_n).v + m.c)) IN
  IF m.field THEN SetKey(stepped, k_a, Str(s_x)) ELSE stepped
MigrationDown(m, data) ==
  LET stepped == SetKey(data, k_n, Num(3 * Get(data, k_n).v + m.c)) IN
  IF m.field THEN DropKey(stepped, k_a) ELSE stepped

Call(fn, index) == [fn |-> fn, index |-> index]

\* the bounds tested, the slot not
MissingHopBoundsOnly(migrations, migrationIndex) ==
  migrationIndex < 0 \/ migrationIndex >= Len(migrations)

\* migrationIndex >= migrations.length || !migrations[migrationIndex], with
\* migrations[-1] undefined (the downgrade path also tests the index < 0)
MissingHop(migrations, migrationIndex) ==
  \/ migrationIndex < 0
  \/ migrationIndex >= Len(migrations)
  \/ ~migrations[migrationIndex + 1].present

\* the indices one too high
UpgradeIndexOffByOne(v) == v
DowngradeIndexOffByOne(v) == v - 1

\* migrations[0] is v1 -> v2
UpgradeIndex(v) == v - 1
\* v2 -> v1 is migrations[0].down
DowngradeIndex(v) == v - 2

\* encode(data, targetSchema, targetVersion)
ReEncode(data, targetSchema, targetVersion) == encode(data, targetSchema, <<targetVersion>>)

\* the outcome of applyMigrations: a token or what it threw, the hop a
\* VersionMismatchError names, the up / down calls made in order, and the
\* data as it stood when the call ended
Migrated(ok, err, hop, out, calls, data) ==
  [ok |-> ok, err |-> err, hop |-> hop, out |-> out, calls |-> calls, data |-> data]
NoMigration == Migrated(FALSE, "none", <<>>, <<>>, <<>>, Undef)

\* for (let v = currentVersion; v < targetVersion; v++)
RECURSIVE UpgradeLoop(_, _, _, _, _)
UpgradeLoop(v, targetVersion, migrations, data, calls) ==
  IF ~(v < targetVersion) THEN Migrated(TRUE, "", <<>>, <<>>, calls, data)
  ELSE LET migrationIndex == UpgradeIndex(v) IN
       IF MissingHop(migrations, migrationIndex)
       THEN Migrated(FALSE, "VersionMismatchError", <<v, v + 1>>, <<>>, calls, data)
       ELSE UpgradeLoop(v + 1, targetVersion, migrations,
                        MigrationUp(migrations[migrationIndex + 1], data),
                        Append(calls, Call("up", migrationIndex)))

\* for (let v = currentVersion; v > targetVersion; v--)
RECURSIVE DowngradeLoop(_, _, _, _, _)
DowngradeLoop(v, targetVersion, migrations, data, calls) ==
  IF ~(v > targetVersion) THEN Migrated(TRUE, "", <<>>, <<>>, calls, data)
  ELSE LET migrationIndex == DowngradeIndex(v) IN
       IF MissingHop(migrations, migrationIndex)
       THEN Migrated(FALSE, "VersionMismatchError", <<v, v - 1>>, <<>>, calls, data)
       ELSE DowngradeLoop(v - 1, targetVersion, migrations,
                          MigrationDown(migrations[migrationIndex + 1], data),
                          Append(calls, Call("down", migrationIndex)))

\* the token handed back as it came
SameVersionEcho(encoded, decoded, targetSchema, targetVersion) ==
  Returned(encoded, targetVersion, <<>>, <<>>)

\* if (currentVersion === targetVersion) return encode(decoded, targetSchema, targetVersion)
SameVersion(encoded, decoded, targetSchema, targetVersion) ==
  ReEncode(decoded, targetSchema, targetVersion)

\* what applyMigrations hands back for the outcome of its closing encode call
Finish(re, calls, data) ==
  IF re.ok THEN Migrated(TRUE, "", <<>>, re.out, calls, data)
  ELSE Migrated(FALSE, re.err, <<>>, <<>>, calls, data)

\* applyMigrations once the loop has run: the closing encode
migrateWalked(walked, targetSchema, targetVersion) ==
  IF ~walked.ok THEN walked
  ELSE Finish(ReEncode(walked.data, targetSchema, targetVersion), walked.calls, walked.data)

\* applyMigrations once the token is decoded under the source schema
migrateDecoded(src, encoded, targetSchema, targetVersion, migrations) ==
  IF ~src.ok THEN Migrated(FALSE, src.err, <<>>, <<>>, <<>>, Undef)
  ELSE IF src.version = targetVersion
  THEN Finish(SameVersion(encoded, src.out, targetSchema, targetVersion), <<>>, src.out)
  ELSE migrateWalked(IF src.version < targetVersion
                     THEN UpgradeLoop(src.version, targetVersion, migrations, src.out, <<>>)
                     ELSE DowngradeLoop(src.version, targetVersion, migrations, src.out, <<>>),
                     targetSchema, targetVersion)

\* extractVersionAndData(encoded, schema)
extractVersionAndData(encoded, S) == decodeWithVersion(encoded, S)

\* applyMigrations(encoded, sourceSchema, targetSchema, targetVersion, migrations)
applyMigrations(encoded, sourceSchema, targetSchema, targetVersion, migrations) ==
  migrateDecoded(extractVersionAndData(encoded, sourceSchema), encoded, targetSchema,
                 targetVersion, migrations)

\* ------------------------------------------------------ EncodedQueryParams
k_toString == <<116, 111, 83, 116, 114, 105, 110, 103>>
\* names every object inherits from Object.prototype (one stands for all)
ObjectPrototypeKeys == {k_toString}
\* name in data
InData(data, name) == HasKey(data, name) \/ name \in ObjectPrototypeKeys

\* the decimal digits of a non-negative integer
RECURSIVE Digits(_)
Digits(n) == IF n < 10 THEN <<48 + n>> ELSE Digits(n \div 10) \o <<48 + (n % 10)>>
\* String(value); an array joins its elements with commas, null and
\* undefined elements as empty strings
RECURSIVE ToJsString(_), JoinItems(_, _)
ToJsString(x) ==
  CASE x.t = "string" -> x.v
    [] x.t = "number" -> IF x.v < 0 THEN <<45>> \o Digits(0 - x.v) ELSE Digits(x.v)
    [] x.t = "boolean" -> IF x.v THEN <<116, 114, 117, 101>> ELSE <<102, 97, 108, 115, 101>>
    [] x.t = "null" -> <<110, 117, 108, 108>>
    [] x.t = "undefined" -> <<117, 110, 100, 101, 102, 105, 110, 101, 100>>
    [] x.t = "array" -> JoinItems(x.v, 1)
    [] OTHER -> <<91, 111, 98, 106, 101, 99, 116, 32, 79, 98, 106, 101, 99, 116, 93>>
JoinItems(items, i) ==
  IF i > Len(items) THEN <<>>
  ELSE (IF i > 1 THEN <<44>> ELSE <<>>)
       \o (IF items[i].t \in {"null", "undefined"} THEN <<>> ELSE ToJsString(items[i]))
       \o JoinItems(items, i + 1)

\* a < b for strings, by UTF-16 code units: the order of Array.prototype.sort
RECURSIVE StrLess(_, _)
StrLess(a, b) ==
  IF b = <<>> THEN FALSE
  ELSE IF a = <<>> THEN TRUE
  ELSE IF a[1] # b[1] THEN a[1] < b[1]
  ELSE StrLess(Tail(a), Tail(b))
FirstKey(props) ==
  CHOOSE i \in 1..Len(props) : \A j \in 1..Len(props) : j # i => StrLess(props[i].k, props[j].k)
Without(props, i) == SubSeq(props, 1, i - 1) \o SubSeq(props, i + 1, Len(props))
RECURSIVE SortedProps(_)
SortedProps(props) ==
  IF props = <<>> THEN <<>>
  ELSE <<props[FirstKey(props)]>> \o SortedProps(Without(props, FirstKey(props)))

\* the outcome of a call on the instance: the data it leaves, what it threw
Kept(data, err) == [data |-> data, threw |-> TRUE, err |-> err]
Stored(data) == [data |-> data, threw |-> FALSE, err |-> ""]
\* this.data = newData with no validation
AssignUnparsed(parsed, newData, data) == Stored(newData)
\* this.data = this.schema.parse(newData): nothing is assigned when parse throws
AssignParsed(parsed, newData, data) ==
  IF parsed.ok THEN Stored(parsed.val) ELSE Kept(data, "ZodError")

\* new EncodedQueryParams(init, schema) with a data object as init
qpConstruct(init, S) ==
  IF S.nodes[S.root].kind # "ZodObject" THEN Kept(Undef, "ValidationError")
  ELSE AssignParsed(ZodParse(S, S.root, init), init, Undef)
\* the version of the token in place of the default
TokenVersion(versionArg, decoded) ==
  IF versionArg = <<>> THEN decoded.version ELSE versionArg[1]
\* this.version = version, 1 when the argument is left out
InstanceVersion(versionArg, decoded) == IF versionArg = <<>> THEN 1 ELSE versionArg[1]
\* this.data = decode(init, schema), which throws what decoding throws
qpDecoded(decoded, versionArg) ==
  [threw |-> ~decoded.ok, data |-> decoded.out,
   version |-> InstanceVersion(versionArg, decoded)]
\* new EncodedQueryParams(init, schema, version) with an encoded string
qpFromString(init, S, versionArg) ==
  IF S.nodes[S.root].kind # "ZodObject"
  THEN [threw |-> TRUE, data |-> Undef, version |-> 0]
  ELSE qpDecoded(decodeInternal(init, S), versionArg)
\* toString()
qpToString(data, S, version) == encode(data, S, <<version>>)
\* set(name, value)
qpSet(data, S, name, value) ==
  AssignParsed(ZodParse(S, S.root, SetKey(data, name, value)), SetKey(data, name, value), data)
\* delete(name)
qpDelete(data, S, name) ==
  AssignParsed(ZodParse(S, S.root, DropKey(data, name)), DropKey(data, name), data)
\* append(name, value); an inherited name holds a function, not an array
qpAppend(data, S, name, value) ==
  IF ~InData(data, name) THEN Kept(data, "ValidationError")
  ELSE IF ~HasKey(data, name) \/ Get(data, name).t # "array"
  THEN Kept(data, "ValidationError")
  ELSE qpSet(data, S, name, Arr(Append(Get(data, name).v, value)))
\* sort()
qpSort(data) == Stored(Obj(SortedProps(data.v)))
\* the values that are not undefined
Defined(data) == SelectSeq(data.v, LAMBDA p : p.val.t # "undefined")
\* entries()
qpEntries(data) == [i \in 1..Len(Defined(data)) |->
                     <<Defined(data)[i].k, ToJsString(Defined(data)[i].val)>>]
\* size
qpSize(data) == Len(Defined(data))

\* -------------------------------------------------------- descriptor cache
\* protobufCache is a WeakMap from schema objects to protobuf.Type objects.
\* Schema objects are told apart by identity: schema s is the s-th object of
\* a list, and a descriptor object is its index in the sequence of the
\* objects zodToProtobuf has created, 0 standing for none.
CacheOutcome(map, built, result, threw) ==
  [map |-> map, built |-> built, result |-> result, threw |-> threw]
\* zodToProtobuf(schema) and protobufCache.set(schema, pbType); nothing is
\* set when zodToProtobuf throws
CreateAndSet(map, built, s, pbType) ==
  IF pbType.err # "" THEN CacheOutcome(map, built, 0, TRUE)
  ELSE CacheOutcome([map EXCEPT ![s] = Len(built) + 1],
                    Append(built, [schema |-> s, type |-> pbType]),
                    Len(built) + 1, FALSE)
\* a new descriptor at every call
getOrCreateAlways(map, built, s, schemas) ==
  CreateAndSet(map, built, s, zodToProtobuf(schemas[s]))
\* getOrCreateProtobuf(schema)
getOrCreateProtobuf(map, built, s, schemas) ==
  IF map[s] # 0 THEN CacheOutcome(map, built, map[s], FALSE)
  ELSE CreateAndSet(map, built, s, zodToProtobuf(schemas[s]))
\* clearCacheForSchema(schema)
clearCacheForSchema(map, built, s) == CacheOutcome([map EXCEPT ![s] = 0], built, 0, FALSE)
\* isCached(schema)
isCached(map, s) == map[s] # 0

\* ------------------------------------------------- the schemas and values
\* z.object({ a: z.string(), n: z.number().int() })
S_basic == Schema(1, <<ZObject(<<k_a, k_n>>, <<2, 3>>), ZString, ZInt>>)
\* z.object({ a: z.string(), b: z.string().optional() })
S_opt == Schema(1, <<ZObject(<<k_a, k_b>>, <<2, 3>>), ZString, ZOptional(2)>>)
\* z.object({ tags: z.array(z.string()) })
S_tags == Schema(1, <<ZObject(<<k_tags>>, <<2>>), ZArray(3), ZString>>)
\* z.object({ tags: z.array(z.string()).optional() })
S_opttags == Schema(1, <<ZObject(<<k_tags>>, <<2>>), ZOptional(3), ZArray(4), ZString>>)
\* z.object({ u: z.object({ x: z.number().int() }), f: z.boolean() })
S_nested ==
  Schema(1, <<ZObject(<<k_u, k_f>>, <<2, 4>>), ZObject(<<k_x>>, <<3>>), ZInt, ZBoolean>>)
\* z.object({ d: z.number(), e: z.enum(['on', 'off']) })
S_num == Schema(1, <<ZObject(<<k_d, k_e>>, <<2, 3>>), ZNumber, ZEnum(<<s_on, s_off>>)>>)
\* z.object({ x: z.string().nullable() })
S_nullable == Schema(1, <<ZObject(<<k_x>>, <<2>>), ZNullable(3), ZString>>)
\* z.object({ a: z.string(), _encodedStateVersion: z.number().int() })
S_reserved == Schema(1, <<ZObject(<<k_a, RESERVED_FIELD>>, <<2, 3>>), ZString, ZInt>>)
\* z.object({ u: z.object({ _encodedStateVersion: z.number().int() }).optional() })
S_reservedNested ==
  Schema(1, <<ZObject(<<k_u>>, <<2>>), ZOptional(3), ZObject(<<RESERVED_FIELD>>, <<4>>), ZInt>>)
\* z.object({ a: z.string(), d: z.date() }): z.date() has no protobuf type
S_unsupported == Schema(1, <<ZObject(<<k_a, k_d>>, <<2, 3>>), ZString, ZDate>>)
\* z.string(): not an object at the root
S_string == Schema(1, <<ZString>>)

\* z.object({ u: z.object({ x: z.number().int() }),
\*            f: z.object({ u: z.object({ x: z.number().int() }) }) })
S_twins ==
  Schema(1, <<ZObject(<<k_u, k_f>>, <<2, 4>>), ZObject(<<k_x>>, <<3>>), ZInt,
              ZObject(<<k_u>>, <<2>>)>>)
\* z.object({ e: z.enum(['on', 'off']), u: z.object({ e: z.enum(['on', 'off']) }) })
S_twinEnums ==
  Schema(1, <<ZObject(<<k_e, k_u>>, <<2, 3>>), ZEnum(<<s_on, s_off>>), ZObject(<<k_e>>, <<2>>)>>)
\* z.object({ u: z.object({ e: z.enum(['on', 'off']) }), e: z.object({ x: z.number().int() }) })
S_namesakes ==
  Schema(1, <<ZObject(<<k_u, k_e>>, <<2, 4>>), ZObject(<<k_e>>, <<3>>), ZEnum(<<s_on, s_off>>),
              ZObject(<<k_x>>, <<5>>), ZInt>>)

Schemas ==
  <<S_basic, S_opt, S_tags, S_opttags, S_nested, S_num, S_nullable, S_reserved,
    S_reservedNested, S_unsupported, S_string, S_twins, S_twinEnums, S_namesakes>>

Values ==
  { Obj(<<Prop(k_a, Str(s_x)), Prop(k_n, Num(5))>>),
    Obj(<<Prop(k_a, Str(s_x)), Prop(k_n, Num(300))>>),
    Obj(<<Prop(k_a, Str(s_run))>>),
    Obj(<<Prop(k_a, Str(s_tie))>>),
    Obj(<<Prop(k_a, Str(s_x))>>),
    Obj(<<Prop(k_a, Str(s_x)), Prop(k_b, Str(s_y))>>),
    Obj(<<Prop(k_tags, Arr(<<Str(s_x), Str(s_y)>>))>>),
    Obj(<<Prop(k_tags, Arr(<<>>))>>),
    Obj(<<>>),
    Obj(<<Prop(k_u, Obj(<<Prop(k_x, Num(1))>>)), Prop(k_f, Bool(TRUE))>>),
    Obj(<<Prop(k_u, Obj(<<Prop(k_x, Num(0 - 1))>>)), Prop(k_f, Bool(FALSE))>>),
    Obj(<<Prop(k_d, Num(2)), Prop(k_e, Str(s_off))>>),
    Obj(<<Prop(k_d, Num(0 - 5)), Prop(k_e, Str(s_on))>>),
    Obj(<<Prop(k_x, Null)>>),
    Obj(<<Prop(k_x, Str(s_x))>>),
    Obj(<<Prop(k_a, Str(s_x)), Prop(RESERVED_FIELD, Num(7))>>),
    Obj(<<Prop(k_a, Str(s_x)), Prop(k_d, DateVal)>>),
    Obj(<<Prop(k_a, Str(s_x)), Prop(k_d, Num(5))>>),
    Str(s_x) }

\* the version arguments of encode: left out, or 0..MaxVersion
VersionArgs == {<<>>} \cup {<<v>> : v \in 0..MaxVersion}

\* tokens that no encode call made: the empty string, "AA" (marker 0x00 and
\* an empty payload), "Ag" (marker 0x02), "AQ" (marker 0x01, nothing to inflate)
ForgedTokens == {<<>>, <<"A", "A">>, <<"A", "g">>, <<"A", "Q">>}

\* V is a value of the schema's type: it parses and comes back as it went in
ValidUnder(S, V) == ZodParse(S, S.root, V).ok /\ DeepEq(ZodParse(S, S.root, V).val, V)

\* the schemas and values of the migration scenarios
\* z.object({ n: z.number().int() })
MS_n == Schema(1, <<ZObject(<<k_n>>, <<2>>), ZInt>>)
\* z.object({ n: z.number().int(), a: z.string() })
MS_na == Schema(1, <<ZObject(<<k_n, k_a>>, <<2, 3>>), ZInt, ZString>>)
\* z.object({ n: z.number().int(), a: z.string().optional() })
MS_nopt == Schema(1, <<ZObject(<<k_n, k_a>>, <<2, 3>>), ZInt, ZOptional(4), ZString>>)
MigrationSchemas == <<MS_n, MS_na, MS_nopt>>

\* a source schema (index) with a value of it
Sources ==
  { [schema |-> 1, value |-> Obj(<<Prop(k_n, Num(1))>>)],
    [schema |-> 2, value |-> Obj(<<Prop(k_n, Num(1)), Prop(k_a, Str(s_y))>>)],
    [schema |-> 3, value |-> Obj(<<Prop(k_n, Num(2))>>)] }

MigrationEntries == {Absent, Migration(1, FALSE), Migration(2, TRUE)}
RECURSIVE ArraysOf(_, _)
ArraysOf(entries, len) ==
  IF len = 0 THEN {<<>>}
  ELSE {Append(ms, e) : ms \in ArraysOf(entries, len - 1), e \in entries}
MigrationArrays == UNION {ArraysOf(MigrationEntries, len) : len \in 0..MaxMigrations}

\* the schema graphs validateSchema is run on: nodes 1..MaxNodes are drawn
\* freely, node MaxNodes + 1 is a string.  A schema refers to schemas built
\* before it (here: the next node, or the string), and only z.lazy can refer
\* to itself or to a schema that contains it.  The key schema of a record is
\* a string schema.
LeafId == MaxNodes + 1
Wrappers == {"ZodArray", "ZodOptional", "ZodNullable", "ZodDefault", "ZodEffects"}
Composites ==
  {"ZodUnion", "ZodDiscriminatedUnion", "ZodIntersection", "ZodMap", "ZodTuple", "ZodPipeline"}
NodeChoices(i) ==
  {Node(k, <<>>, <<i + 1>>, <<>>, FALSE) : k \in Wrappers}
    \cup {Node(k, <<>>, kk, <<>>, FALSE) :
            k \in Composites, kk \in {<<i + 1, LeafId>>, <<LeafId, i + 1>>}}
    \cup {Node("ZodRecord", <<>>, <<LeafId, i + 1>>, <<>>, FALSE)}
    \cup {ZObject(<<k_a>>, <<i + 1>>), ZObject(<<k_a, RESERVED_FIELD>>, <<i + 1, LeafId>>)}
    \cup {Node("ZodLazy", <<>>, <<j>>, <<>>, FALSE) : j \in 1..(i + 1)}
    \cup {ZString}
RECURSIVE GraphNodes(_)
GraphNodes(i) ==
  IF i > MaxNodes THEN {<<ZString>>}
  ELSE {<<n>> \o rest : n \in NodeChoices(i), rest \in GraphNodes(i + 1)}
Graphs == {Schema(1, nodes) : nodes \in GraphNodes(1)}

\* ---------------------------------------------------------------- the state
\* --------------------------------------------------------- boolean packing

\* the byte and the bit of the i-th boolean (0-based)
ByteIndex(i) == i \div 8

\* the bits counted from the most significant one
BitPositionMsbFirst(i) == 7 - (i % 8)
\* i % 8
BitPosition(i) == i % 8

\* Math.ceil(n / 8)
CeilDiv8(n) == (n + 7) \div 8

\* the loop of packBooleans from index i (0-based) on
RECURSIVE PackFrom(_, _, _)
PackFrom(values, i, bytes) ==
  IF i >= Len(values) THEN bytes
  ELSE IF values[i + 1]
       THEN PackFrom(values, i + 1,
                     [bytes EXCEPT ![ByteIndex(i) + 1] =
                        BitOr(@, ShiftLeft(1, BitPosition(i)))])
       ELSE PackFrom(values, i + 1, bytes)

packBooleans(values) ==
  PackFrom(values, 0, [b \in 1..CeilDiv8(Len(values)) |-> 0])

unpackBooleans(bytes, count) ==
  [k \in 1..count |->
     IF ByteIndex(k - 1) < Len(bytes)
     THEN BitAnd(ShiftRight(bytes[ByteIndex(k - 1) + 1], BitPosition(k - 1)), 1) = 1
     ELSE FALSE]

\* ----------------------------------------------------- boolean field lists

\* Object.keys(shape).sort()
FirstOf(keys) ==
  CHOOSE i \in 1..Len(keys) : \A j \in 1..Len(keys) : j # i => StrLess(keys[i], keys[j])
RECURSIVE SortedKeys(_)
SortedKeys(keys) ==
  IF keys = <<>> THEN <<>>
  ELSE <<keys[FirstOf(keys)]>> \o SortedKeys(Without(keys, FirstOf(keys)))

\* shape[key]
ShapeAt(n, key) == n.kids[CHOOSE i \in 1..Len(n.keys) : n.keys[i] = key]

\* if (unwrapped instanceof ZodOptional || unwrapped instanceof ZodNullable)
UnwrapOptionalOnce(S, id) ==
  IF S.nodes[id].kind \in {"ZodOptional", "ZodNullable"} THEN S.nodes[id].kids[1] ELSE id
\* if (unwrapped instanceof ZodDefault)
UnwrapDefaultOnce(S, id) ==
  IF S.nodes[id].kind = "ZodDefault" THEN S.nodes[id].kids[1] ELSE id
\* the schema traverse() looks at
Unwrapped(S, id) == UnwrapDefaultOnce(S, UnwrapOptionalOnce(S, UnwrapEffects(S, id)))

BooleanFieldInfo(path, currentBit) ==
  [path |-> path, bitPosition |-> currentBit % 8, byteIndex |-> currentBit \div 8]

\* traverse(currentSchema, currentPath) of extractBooleanFields, with the
\* fields pushed so far; currentBit is their number
RECURSIVE traverse(_, _, _, _)
RECURSIVE traverseShape(_, _, _, _, _)
traverseUnwrapped(S, n, currentPath, fields) ==
  IF n.kind = "ZodBoolean"
  THEN Append(fields, BooleanFieldInfo(currentPath, Len(fields)))
  ELSE IF n.kind = "ZodObject"
       THEN traverseShape(S, n, SortedKeys(n.keys), currentPath, fields)
       ELSE fields
traverse(S, id, currentPath, fields) ==
  traverseUnwrapped(S, S.nodes[Unwrapped(S, id)], currentPath, fields)
traverseShape(S, n, keys, currentPath, fields) ==
  IF keys = <<>> THEN fields
  ELSE traverseShape(S, n, Tail(keys), currentPath,
                     traverse(S, ShapeAt(n, Head(keys)), Append(currentPath, Head(keys)),
                              fields))

extractBooleanFields(S) == traverse(S, S.root, <<>>, <<>>)

\* JSON.parse(JSON.stringify(value)) of a value inside an object or array:
\* properties holding undefined are dropped, undefined items become null,
\* dates become strings
s_iso == <<50, 48, 50, 52>>
RECURSIVE JsonCloneItems(_, _)
RECURSIVE JsonCloneProps(_, _)
JsonClone(x) ==
  IF x.t = "array" THEN Arr(JsonCloneItems(x.v, 1))
  ELSE IF x.t = "object" THEN Obj(JsonCloneProps(x.v, 1))
  ELSE IF x.t = "date" THEN Str(s_iso)
  ELSE x
JsonCloneItems(items, i) ==
  IF i > Len(items) THEN <<>>
  ELSE <<IF items[i].t = "undefined" THEN Null ELSE JsonClone(items[i])>>
       \o JsonCloneItems(items, i + 1)
JsonCloneProps(props, i) ==
  IF i > Len(props) THEN <<>>
  ELSE (IF props[i].val.t = "undefined" THEN <<>>
        ELSE <<Prop(props[i].k, JsonClone(props[i].val))>>)
       \o JsonCloneProps(props, i + 1)

\* the value at a path of keys that exist
RECURSIVE ValueAt(_, _)
ValueAt(x, path) == IF path = <<>> THEN x ELSE ValueAt(Get(x, Head(path)), Tail(path))

\* delete current[lastKey], current being the object at the path
RECURSIVE DeleteAt(_, _, _)
DeleteAt(x, path, lastKey) ==
  IF path = <<>> THEN (IF x.t = "object" THEN DropKey(x, lastKey) ELSE x)
  ELSE SetKey(x, Head(path), DeleteAt(Get(x, Head(path)), Tail(path), lastKey))

\* field.path[field.path.length - 1]: undefined, used as the key "undefined",
\* for an empty path
s_undefined == <<117, 110, 100, 101, 102, 105, 110, 101, 100>>
LastKey(path) == IF path = <<>> THEN s_undefined ELSE path[Len(path)]

\* the loop "traverse to parent" from j (1-based) on, current being the value
\* at the path at: it stops at the first key that current lacks, and the in
\* operator throws a TypeError when current is not an object
RECURSIVE WalkToParent(_, _, _, _)
WalkedTo(result, path, j, at, current) ==
  IF current.t \notin {"object", "array"} THEN [threw |-> TRUE, at |-> at]
  ELSE IF ~(current.t = "object" /\ HasKey(current, path[j]))
       THEN [threw |-> FALSE, at |-> at]
       ELSE WalkToParent(result, path, j + 1, Append(at, path[j]))
WalkToParent(result, path, j, at) ==
  IF j > Len(path) - 1 THEN [threw |-> FALSE, at |-> at]
  ELSE WalkedTo(result, path, j, at, ValueAt(result, at))

\* the outcome of removeBooleanFields: the value returned, or threw
Removed(value) == [threw |-> FALSE, value |-> value]
RemoveThrew == [threw |-> TRUE, value |-> Undef]

\* the body of the loop over the fields, from field i on
RECURSIVE RemoveFrom(_, _, _)
RemoveWalked(result, fields, i, walked) ==
  IF walked.threw THEN RemoveThrew
  ELSE RemoveFrom(DeleteAt(result, walked.at, LastKey(fields[i].path)), fields, i + 1)
RemoveFrom(result, fields, i) ==
  IF i > Len(fields) THEN Removed(result)
  ELSE RemoveWalked(result, fields, i, WalkToParent(result, fields[i].path, 1, <<>>))

\* JSON.stringify(undefined) is undefined, which JSON.parse rejects
removeBooleanFields(data, fields) ==
  IF data.t = "undefined" THEN RemoveThrew ELSE RemoveFrom(JsonClone(data), fields, 1)

\* -------------------------------------------------------- string dictionary
\* Values are trees: no object occurs twice in one, so the sets of objects
\* already seen, which only stop at a repeated object, never cut a traversal short.

k_ref == <<95, 95, 114, 101, 102>>

\* dictionary.stringToIndex.has(value)
InStrings(strings, s) == \E i \in 1..Len(strings) : strings[i] = s
\* dictionary.stringToIndex.get(value), from 0
StringIndex(strings, s) == (CHOOSE i \in 1..Len(strings) : strings[i] = s) - 1

\* strings of exactly minLength left out
LongerThan(s, minLength) == Len(s) > minLength
\* value.length >= minLength
LongEnough(s, minLength) == Len(s) >= minLength

\* Object.keys(value), in insertion order
KeysOf(props) == [i \in 1..Len(props) |-> props[i].k]

\* a string met by the traversal of buildStringDictionary
Collect(s, minLength, strings) ==
  IF LongEnough(s, minLength) /\ ~InStrings(strings, s) THEN Append(strings, s) ELSE strings

\* traverse(value) of buildStringDictionary, with the strings pushed so far
RECURSIVE collectStrings(_, _, _)
RECURSIVE collectItems(_, _, _, _)
RECURSIVE collectKeys(_, _, _, _)
collectStrings(value, minLength, strings) ==
  IF value.t = "string" THEN Collect(value.v, minLength, strings)
  ELSE IF value.t = "array" THEN collectItems(value.v, 1, minLength, strings)
  ELSE IF value.t = "object"
       THEN collectKeys(value, SortedKeys(KeysOf(value.v)), minLength, strings)
       ELSE strings
collectItems(items, i, minLength, strings) ==
  IF i > Len(items) THEN strings
  ELSE collectItems(items, i + 1, minLength, collectStrings(items[i], minLength, strings))
collectKeys(value, keys, minLength, strings) ==
  IF keys = <<>> THEN strings
  ELSE collectKeys(value, Tail(keys), minLength,
                   collectStrings(Get(value, Head(keys)), minLength,
                                  Collect(Head(keys), minLength, strings)))

\* buildStringDictionary(data, minLength).strings
buildStringDictionary(data, minLength) == collectStrings(data, minLength, <<>>)

\* replace(value) of applyStringDictionary
RECURSIVE replace(_, _, _)
replace(value, strings, minLength) ==
  IF value.t = "string"
  THEN IF LongEnough(value.v, minLength) /\ InStrings(strings, value.v)
       THEN Obj(<<Prop(k_ref, Num(StringIndex(strings, value.v)))>>)
       ELSE value
  ELSE IF value.t = "array"
       THEN Arr([i \in 1..Len(value.v) |-> replace(value.v[i], strings, minLength)])
  ELSE IF value.t = "object"
       THEN Obj([i \in 1..Len(value.v) |->
                   Prop(value.v[i].k, replace(value.v[i].val, strings, minLength))])
  ELSE value

applyStringDictionary(data, strings, minLength) == replace(data, strings, minLength)

\* what restore() gives when it throws "Invalid string reference"
InvalidReference == [t |-> "thrown", v |-> <<>>]
AnyInvalid(values) == \E i \in 1..Len(values) : values[i].t = "thrown"

\* '__ref' in value && typeof value.__ref === 'number'
IsReference(value) ==
  value.t = "object" /\ HasKey(value, k_ref) /\ Get(value, k_ref).t = "number"
Dereferenced(index, strings) ==
  IF index >= 0 /\ index < Len(strings) THEN Str(strings[index + 1]) ELSE InvalidReference

\* restore(value) of restoreStringDictionary
RECURSIVE restore(_, _)
RestoredItems(items) == IF AnyInvalid(items) THEN InvalidReference ELSE Arr(items)
RestoredProps(props, vals) ==
  IF AnyInvalid(vals) THEN InvalidReference
  ELSE Obj([i \in 1..Len(props) |-> Prop(props[i].k, vals[i])])
restore(value, strings) ==
  IF IsReference(value) THEN Dereferenced(Get(value, k_ref).v, strings)
  ELSE IF value.t = "array"
       THEN RestoredItems([i \in 1..Len(value.v) |-> restore(value.v[i], strings)])
  ELSE IF value.t = "object"
       THEN RestoredProps(value.v, [i \in 1..Len(value.v) |-> restore(value.v[i].val, strings)])
  ELSE value

restoreStringDictionary(data, strings) == restore(data, strings)

\* countStrings(value) of shouldUseDictionary: what it adds to originalSize
RECURSIVE OriginalSize(_, _)
RECURSIVE OriginalSizeOf(_, _, _)
OriginalSize(value, minLength) ==
  IF value.t = "string" /\ LongEnough(value.v, minLength) THEN Len(value.v)
  ELSE IF value.t = "array" THEN OriginalSizeOf(value.v, 1, minLength)
  ELSE IF value.t = "object"
       THEN OriginalSizeOf([i \in 1..Len(value.v) |-> value.v[i].val], 1, minLength)
  ELSE 0
OriginalSizeOf(values, i, minLength) ==
  IF i > Len(values) THEN 0
  ELSE OriginalSize(values[i], minLength) + OriginalSizeOf(values, i + 1, minLength)

\* countStrings(value) of shouldUseDictionary: what it adds to referenceCount
RECURSIVE ReferenceCount(_, _, _)
RECURSIVE ReferenceCountOf(_, _, _, _)
ReferenceCount(value, strings, minLength) ==
  IF value.t = "string" /\ LongEnough(value.v, minLength)
  THEN (IF InStrings(strings, value.v) THEN 1 ELSE 0)
  ELSE IF value.t = "array" THEN ReferenceCountOf(value.v, 1, strings, minLength)
  ELSE IF value.t = "object"
       THEN ReferenceCountOf([i \in 1..Len(value.v) |-> value.v[i].val], 1, strings,
                             minLength)
  ELSE 0
ReferenceCountOf(values, i, strings, minLength) ==
  IF i > Len(values) THEN 0
  ELSE ReferenceCount(values[i], strings, minLength)
       + ReferenceCountOf(values, i + 1, strings, minLength)

\* dictionary.strings.reduce((sum, s) => sum + s.length + 1, 0)
RECURSIVE DictionarySize(_, _)
DictionarySize(strings, i) ==
  IF i > Len(strings) THEN 0 ELSE Len(strings[i]) + 1 + DictionarySize(strings, i + 1)

CompressedSize(dictionarySize, referenceCount) == dictionarySize + referenceCount * 2 + 2

\* compressedSize < originalSize * 0.9: the sizes are small integers, for
\* which the double product compares as the exact one does
SavesTenth(compressedSize, originalSize) == 10 * compressedSize < 9 * originalSize

shouldUseDictionary(data, strings, minLength) ==
  SavesTenth(CompressedSize(DictionarySize(strings, 1),
                            ReferenceCount(data, strings, minLength)),
             OriginalSize(data, minLength))

\* -------------------------------------------------------------- QueryParams
\* The instance is its URLSearchParams list of name-value pairs, in order,
\* and the private encodedValue.

k_state == <<115, 116, 97, 116, 101>>

Pair(name, value) == [name |-> name, value |-> value]

\* new QueryParams(encodedValue): super({ state: encodedValue })
QueryParams(encodedValue) ==
  [list |-> <<Pair(k_state, encodedValue)>>, encodedValue |-> encodedValue]

\* URLSearchParams.prototype.get: the value of the first pair of that name, or null
NoValue == <<>>
FirstNamed(list, name) == CHOOSE i \in 1..Len(list) :
  list[i].name = name /\ \A j \in 1..(i - 1) : list[j].name # name
uspHas(list, name) == \E i \in 1..Len(list) : list[i].name = name
uspGet(list, name) == IF uspHas(list, name) THEN <<list[FirstNamed(list, name)].value>> ELSE NoValue

\* URLSearchParams.prototype.append
uspAppend(list, name, value) == Append(list, Pair(name, value))
\* URLSearchParams.prototype.delete: every pair of that name goes
uspDelete(list, name) == SelectSeq(list, LAMBDA p : p.name # name)
\* URLSearchParams.prototype.set: the first pair of that name takes the value
\* and the others go; a new pair is appended when there is none
uspSet(list, name, value) ==
  IF uspHas(list, name)
  THEN SubSeq(list, 1, FirstNamed(list, name) - 1)
       \o <<Pair(name, value)>>
       \o uspDelete(SubSeq(list, FirstNamed(list, name) + 1, Len(list)), name)
  ELSE uspAppend(list, name, value)
\* URLSearchParams.prototype.sort: by name, pairs of one name keeping their order
RECURSIVE uspInsert(_, _)
uspInsert(sorted, p) ==
  IF sorted = <<>> THEN <<p>>
  ELSE IF StrLess(p.name, Head(sorted).name) THEN <<p>> \o sorted
  ELSE <<Head(sorted)>> \o uspInsert(Tail(sorted), p)
RECURSIVE uspSortFrom(_, _, _)
uspSortFrom(list, i, sorted) ==
  IF i > Len(list) THEN sorted ELSE uspSortFrom(list, i + 1, uspInsert(sorted, list[i]))
uspSort(list) == uspSortFrom(list, 1, <<>>)

\* the state parameter as it is now, in place of the stored string
getStateLive(o) == uspGet(o.list, k_state)
\* getState()
getState(o) == <<o.encodedValue>>
\* toString()
QueryParams_toString(o) == <<o.encodedValue>>
\* valueOf()
valueOf(o) == <<o.encodedValue>>
\* [Symbol.toPrimitive](hint)
toPrimitive(o, hint) == IF hint = "number" THEN <<o.encodedValue>> ELSE <<o.encodedValue>>

VARIABLES
  phase,     \* where the scenario stands
  input,     \* the arguments of the encode call: schema (index), value, versionArg
  enc,       \* the outcome of the encode call
  token,     \* the token in hand (as encoded, cut short, or forged)
  dschema,   \* the schema (index) handed to decode, 0 before the call
  dec,       \* the outcome of the decodeWithVersion call
  mig,       \* the arguments of the applyMigrations call
  mres,      \* the outcome of the applyMigrations call
  graph,     \* the schema handed to validateSchema
  verdict,   \* what validateSchema did: "none" before the call, "throws", "returns"
  senc,      \* the outcome of the encode call with safeParse: true
  sdec,      \* the outcome of the decode call with safeParse: true
  gv,        \* what getVersion returned: <<>> before the call, <<version>> after
  hdr,       \* the header scenario: payload, version, options, and the outcomes
             \* of encodeWithHeader and decodeWithHeader
  cache,     \* the descriptor cache: the WeakMap, the descriptors created so
             \* far, the last call and its result, the map before that call,
             \* and per schema what getOrCreateProtobuf was asked and gave
             \* since the last clearCacheForSchema
  bools,     \* the boolean field scenario: the schema (index) and the data,
             \* the list extractBooleanFields gave, and the outcome of
             \* removeBooleanFields
  dict,      \* the string dictionary scenario: the value and minLength, the
             \* strings buildStringDictionary listed, and what
             \* applyStringDictionary, restoreStringDictionary and
             \* shouldUseDictionary returned
  sp,        \* the QueryParams instance: the string given to its constructor,
             \* its parameter list and encodedValue, the number of mutations
             \* made, and what its getters returned when last read
  pack,      \* the boolean packing scenario: the values handed to
             \* packBooleans, its bytes, and the bytes, count and result of
             \* the unpackBooleans call
  qp         \* the EncodedQueryParams instance: its schema (index) and data, the
             \* number of calls made on it, the last call and its outcome, and
             \* what data, size and entries() were before that call

\* the state of the codec, migration and validation scenarios
codecVars == <<input, enc, token, dschema, dec, mig, mres, graph, verdict>>
\* the state of the other scenarios
\* the state of the optimization scenarios
optVars == <<pack, bools, dict, sp>>
others == <<senc, sdec, gv, hdr, qp, cache, optVars>>
vars == <<phase, codecVars, others>>

NoInput == [schema |-> 0, value |-> Undef, versionArg |-> <<>>]
NoMig ==
  [source |-> 0, value |-> Undef, current |-> 0, target |-> 0, tschema |-> 0,
   migrations |-> <<>>]
NoGraph == Schema(1, <<ZString>>)
NoSafe == [success |-> FALSE, data |-> <<>>, version |-> <<>>, error |-> <<"none">>]

NoHeader ==
  [payload |-> <<>>, version |-> 0,
   options |-> [compressed |-> FALSE, stringDictionary |-> <<>>, booleanPacking |-> <<>>],
   framed |-> NoHeaderCall, unframed |-> NoHeaderCall]

\* no call of the codec, migration and validation scenarios has been made
CodecIdle ==
  /\ input = NoInput
  /\ enc = NoCall
  /\ token = <<>>
  /\ dschema = 0
  /\ dec = NoCall
  /\ mig = NoMig
  /\ mres = NoMigration
  /\ graph = NoGraph
  /\ verdict = "none"
ModesIdle ==
  /\ senc = NoSafe
  /\ sdec = NoSafe
  /\ gv = <<>>
HeaderIdle == hdr = NoHeader
NoQueryCall == [op |-> "none", name |-> <<>>, value |-> Undef, threw |-> FALSE, err |-> ""]
NoSnapshot == [data |-> Undef, size |-> 0, entries |-> <<>>]
NoQuery ==
  [schema |-> 0, data |-> Undef, version |-> 0, text |-> NoCall, calls |-> 0,
   last |-> NoQueryCall, before |-> NoSnapshot]
QueryIdle == qp = NoQuery
NoCache == [map |-> <<>>, built |-> <<>>, last |-> [op |-> "none", schema |-> 0, result |-> 0,
            threw |-> FALSE, prior |-> 0], before |-> <<>>, asked |-> <<>>, given |-> <<>>]
CacheIdle == cache = NoCache
NoPack ==
  [did |-> "none", values |-> <<>>, packed |-> <<>>, bytes |-> <<>>, count |-> 0,
   unpacked |-> <<>>]
PackIdle == pack = NoPack
NoBools == [did |-> "none", schema |-> 0, data |-> Undef, fields |-> <<>>,
            removed |-> [threw |-> FALSE, value |-> Undef]]
BoolsIdle == bools = NoBools
NoDict ==
  [did |-> "none", value |-> Undef, minLength |-> 0, strings |-> <<>>, applied |-> Undef,
   restored |-> Undef, should |-> FALSE]
DictIdle == dict = NoDict
NoRead == [getState |-> <<>>, toString |-> <<>>, valueOf |-> <<>>, asString |-> <<>>,
           asNumber |-> <<>>, asDefault |-> <<>>, state |-> <<>>]
NoParams ==
  [did |-> "none", given |-> <<>>, list |-> <<>>, encodedValue |-> <<>>, mutations |-> 0,
   read |-> NoRead]
ParamsIdle == sp = NoParams
OptIdle ==
  /\ PackIdle
  /\ BoolsIdle
  /\ DictIdle
  /\ ParamsIdle
\* no call of the other scenarios has been made
OthersIdle ==
  /\ ModesIdle
  /\ HeaderIdle
  /\ QueryIdle
  /\ CacheIdle
  /\ OptIdle

Init ==
  /\ phase = "start"
  /\ input \in [schema : 1..Len(Schemas), value : Values, versionArg : VersionArgs]
  /\ enc = NoCall
  /\ token = <<>>
  /\ dschema = 0
  /\ dec = NoCall
  /\ mig = NoMig
  /\ mres = NoMigration
  /\ graph = NoGraph
  /\ verdict = "none"
  /\ OthersIdle

\* encode(value, schema, version)
Encode ==
  /\ phase = "start"
  /\ enc' = encode(input.value, Schemas[input.schema], input.versionArg)
  /\ token' = IF enc'.ok THEN enc'.out ELSE <<>>
  /\ phase' = IF enc'.ok THEN "encoded" ELSE "failed"
  /\ UNCHANGED <<input, dschema, dec, mig, mres, graph, verdict, others>>

\* a token from elsewhere is handed to decode
Forge ==
  /\ phase = "start"
  /\ \E t \in ForgedTokens : token' = t
  /\ phase' = "forged"
  /\ UNCHANGED <<input, enc, dschema, dec, mig, mres, graph, verdict, others>>

\* the token is cut short: any proper prefix of it
Cut ==
  /\ phase = "encoded"
  /\ \E k \in 0..(Len(token) - 1) : token' = SubSeq(token, 1, k)
  /\ phase' = "cut"
  /\ UNCHANGED <<input, enc, dschema, dec, mig, mres, graph, verdict, others>>

\* decodeWithVersion(token, schema); a token cut short is decoded with the
\* schema that made it
Decode ==
  /\ phase \in {"encoded", "cut", "forged"}
  /\ \E s \in 1..Len(Schemas) :
       /\ phase = "cut" => s = input.schema
       /\ dschema' = s
       /\ dec' = decodeWithVersion(token, Schemas[s])
  /\ phase' = IF phase = "cut" THEN "decodedCut" ELSE IF phase = "forged" THEN "decodedForged"
              ELSE "decoded"
  /\ UNCHANGED <<input, enc, token, mig, mres, graph, verdict, others>>

Next == Encode \/ Forge \/ Cut \/ Decode

Spec == Init /\ [][Next]_vars

\* ------------------------------------------------ the migration scenarios
InitMigrate ==
  /\ phase = "start"
  /\ input = NoInput
  /\ enc = NoCall
  /\ token = <<>>
  /\ dschema = 0
  /\ dec = NoCall
  /\ \E src \in Sources, c \in 0..MaxVersion, t \in 0..MaxVersion,
        ts \in 1..Len(MigrationSchemas), ms \in MigrationArrays :
       mig = [source |-> src.schema, value |-> src.value, current |-> c, target |-> t,
              tschema |-> ts, migrations |-> ms]
  /\ mres = NoMigration
  /\ graph = NoGraph
  /\ verdict = "none"
  /\ OthersIdle

\* the token to migrate: encode(value, sourceSchema, current)
EncodeSource ==
  /\ phase = "start"
  /\ enc' = encode(mig.value, MigrationSchemas[mig.source], <<mig.current>>)
  /\ token' = IF enc'.ok THEN enc'.out ELSE <<>>
  /\ phase' = IF enc'.ok THEN "source" ELSE "failed"
  /\ UNCHANGED <<input, dschema, dec, mig, mres, graph, verdict, others>>

\* applyMigrations(token, sourceSchema, targetSchema, target, migrations)
ApplyMigrations ==
  /\ phase = "source"
  /\ mres' = applyMigrations(token, MigrationSchemas[mig.source],
                             MigrationSchemas[mig.tschema], mig.target, mig.migrations)
  /\ phase' = IF mres'.ok THEN "migrated" ELSE "refused"
  /\ UNCHANGED <<input, enc, token, dschema, dec, mig, graph, verdict, others>>

\* decodeWithVersion(migrated, targetSchema)
DecodeMigrated ==
  /\ phase = "migrated"
  /\ dschema' = mig.tschema
  /\ dec' = decodeWithVersion(mres.out, MigrationSchemas[mig.tschema])
  /\ phase' = "read"
  /\ UNCHANGED <<input, enc, token, mig, mres, graph, verdict, others>>

NextMigrate == EncodeSource \/ ApplyMigrations \/ DecodeMigrated

SpecMigrate == InitMigrate /\ [][NextMigrate]_vars

\* ------------------------------------------------- the validation scenarios
InitValidate ==
  /\ phase = "start"
  /\ input = NoInput
  /\ enc = NoCall
  /\ token = <<>>
  /\ dschema = 0
  /\ dec = NoCall
  /\ mig = NoMig
  /\ mres = NoMigration
  /\ graph \in Graphs
  /\ verdict = "none"
  /\ OthersIdle

\* validateSchema(schema)
Validate ==
  /\ phase = "start"
  /\ verdict' = IF validateSchemaThrows(graph) THEN "throws" ELSE "returns"
  /\ phase' = "validated"
  /\ UNCHANGED <<input, enc, token, dschema, dec, mig, mres, graph, others>>

NextValidate == Validate

SpecValidate == InitValidate /\ [][NextValidate]_vars

\* ------------------------------------------ the calling modes and getVersion
\* The same arguments are handed to a call in throwing mode, to the call
\* with safeParse: true, and to getVersion.
\* encode(value, schema, version, { safeParse: true })
EncodeSafe ==
  /\ phase \in {"encoded", "failed"}
  /\ senc = NoSafe
  /\ senc' = encodeSafe(input.value, Schemas[input.schema], input.versionArg)
  /\ UNCHANGED <<phase, codecVars, sdec, gv, hdr, qp, cache, optVars>>

\* decode(token, schema, { safeParse: true }), with the arguments of Decode
DecodeSafe ==
  /\ phase \in {"decoded", "decodedForged"}
  /\ sdec = NoSafe
  /\ sdec' = decodeSafe(token, Schemas[dschema])
  /\ UNCHANGED <<phase, codecVars, senc, gv, hdr, qp, cache, optVars>>

\* getVersion(token, schema), with the arguments of Decode
GetVersion ==
  /\ phase \in {"decoded", "decodedForged"}
  /\ gv = <<>>
  /\ gv' = <<getVersion(token, Schemas[dschema])>>
  /\ UNCHANGED <<phase, codecVars, senc, sdec, hdr, qp, cache, optVars>>

NextModes == Encode \/ Forge \/ Decode \/ EncodeSafe \/ DecodeSafe \/ GetVersion

SpecModes == Init /\ [][NextModes]_vars

\* -------------------------------------------------------- the header scenarios
\* payloads of up to MaxPayloadLen bytes
RECURSIVE BytesUpTo(_)
BytesUpTo(n) ==
  IF n = 0 THEN {<<>>}
  ELSE BytesUpTo(n - 1) \cup {<<b>> \o p : b \in {0, 255}, p \in {q \in BytesUpTo(n - 1) : Len(q) = n - 1}}
Payloads == BytesUpTo(MaxPayloadLen)
\* every version of the 10-bit field, and two on each side of it
HeaderVersions == (0 - 2)..1025
OptionalFlag == {<<>>, <<TRUE>>, <<FALSE>>}
HeaderOptions ==
  [compressed : BOOLEAN, stringDictionary : OptionalFlag, booleanPacking : OptionalFlag]

InitHeader ==
  /\ phase = "start"
  /\ CodecIdle
  /\ ModesIdle
  /\ QueryIdle
  /\ CacheIdle
  /\ OptIdle
  /\ hdr \in [payload : Payloads, version : HeaderVersions, options : HeaderOptions,
               framed : {NoHeaderCall}, unframed : {NoHeaderCall}]

\* encodeWithHeader(payload, version, options)
Frame ==
  /\ phase = "start"
  /\ hdr' = [hdr EXCEPT !.framed = encodeWithHeader(hdr.payload, hdr.version, hdr.options)]
  /\ phase' = IF hdr'.framed.ok THEN "framed" ELSE "rejected"
  /\ UNCHANGED <<codecVars, senc, sdec, gv, qp, cache, optVars>>

\* decodeWithHeader(encoded), of the bytes encodeWithHeader returned or of a
\* prefix of them
Unframe ==
  /\ phase = "framed"
  /\ \E k \in {0, 1, Len(hdr.framed.bytes)} :
       hdr' = [hdr EXCEPT !.unframed = decodeWithHeader(SubSeq(hdr.framed.bytes, 1, k))]
  /\ phase' = IF hdr'.unframed.ok THEN "unframed" ELSE "short"
  /\ UNCHANGED <<codecVars, senc, sdec, gv, qp, cache, optVars>>

NextHeader == Frame \/ Unframe

SpecHeader == InitHeader /\ [][NextHeader]_vars

\* -------------------------------------------------- the query-params scenarios
\* z.object({ a: z.string(), b: z.string().optional(), tags: z.array(z.string()) })
QS_params ==
  Schema(1, <<ZObject(<<k_a, k_b, k_tags>>, <<2, 3, 4>>), ZString, ZOptional(2), ZArray(2)>>)
QuerySchemas == <<QS_params, S_opttags, S_string>>
QueryInits ==
  { Obj(<<Prop(k_tags, Arr(<<>>)), Prop(k_a, Str(s_x))>>),
    Obj(<<Prop(k_a, Str(s_x)), Prop(k_b, Str(s_y)), Prop(k_tags, Arr(<<Str(s_x)>>))>>),
    Obj(<<Prop(k_tags, Arr(<<Str(s_x)>>))>>),
    Obj(<<>>) }
QueryNames == {k_a, k_b, k_tags, k_x, k_toString}
QueryValues == {Str(s_y), Num(5), Undef, Arr(<<Str(s_x)>>)}

InitQuery ==
  /\ OptIdle
  /\ phase = "start"
  /\ CodecIdle
  /\ ModesIdle
  /\ HeaderIdle
  /\ CacheIdle
  /\ qp = NoQuery

Snapshot(data) == [data |-> data, size |-> qpSize(data), entries |-> qpEntries(data)]
\* the instance after a call with the given outcome
Called(op, name, value, r) ==
  [qp EXCEPT !.data = r.data, !.calls = qp.calls + 1,
             !.last = [op |-> op, name |-> name, value |-> value, threw |-> r.threw,
                       err |-> r.err],
             !.before = Snapshot(qp.data)]

\* new EncodedQueryParams(init, schema)
Construct ==
  /\ phase = "start"
  /\ \E s \in 1..Len(QuerySchemas), init \in QueryInits :
       /\ qp' = [NoQuery EXCEPT !.schema = s, !.data = qpConstruct(init, QuerySchemas[s]).data,
                                !.version = 1]
       /\ phase' = IF qpConstruct(init, QuerySchemas[s]).threw THEN "failed" ELSE "live"
  /\ UNCHANGED <<codecVars, senc, sdec, gv, hdr, cache, optVars>>

\* params.set(name, value)
Set ==
  /\ phase = "live" /\ qp.calls < MaxCalls
  /\ \E name \in QueryNames, value \in QueryValues :
       qp' = Called("set", name, value, qpSet(qp.data, QuerySchemas[qp.schema], name, value))
  /\ UNCHANGED <<phase, codecVars, senc, sdec, gv, hdr, cache, optVars>>

\* params.delete(name)
Delete ==
  /\ phase = "live" /\ qp.calls < MaxCalls
  /\ \E name \in QueryNames :
       qp' = Called("delete", name, Undef, qpDelete(qp.data, QuerySchemas[qp.schema], name))
  /\ UNCHANGED <<phase, codecVars, senc, sdec, gv, hdr, cache, optVars>>

\* params.append(name, value)
AppendTo ==
  /\ phase = "live" /\ qp.calls < MaxCalls
  /\ \E name \in QueryNames, value \in QueryValues :
       qp' = Called("append", name, value,
                    qpAppend(qp.data, QuerySchemas[qp.schema], name, value))
  /\ UNCHANGED <<phase, codecVars, senc, sdec, gv, hdr, cache, optVars>>

\* params.sort()
Sort ==
  /\ phase = "live" /\ qp.calls < MaxCalls
  /\ qp' = Called("sort", <<>>, Undef, qpSort(qp.data))
  /\ UNCHANGED <<phase, codecVars, senc, sdec, gv, hdr, cache, optVars>>

NextQuery == Construct \/ Set \/ Delete \/ AppendTo \/ Sort

SpecQuery == InitQuery /\ [][NextQuery]_vars

\* -------------------------------------------------------- the cache scenarios
\* z.object({ u: z.object({ x: z.number().int(), a: z.string() }), f: z.boolean(),
\*            b: z.string() })
S_unsorted ==
  Schema(1, <<ZObject(<<k_u, k_f, k_b>>, <<2, 5, 4>>), ZObject(<<k_x, k_a>>, <<3, 4>>),
              ZInt, ZString, ZBoolean>>)
\* z.object({})
S_empty == Schema(1, <<ZObject(<<>>, <<>>)>>)
\* the schema objects at hand: the first two are two objects of one structure
CacheSchemas == <<S_unsorted, S_unsorted, S_nested, S_empty, S_unsupported>>
SchemaIds == 1..Len(CacheSchemas)

InitCache ==
  /\ OptIdle
  /\ phase = "start"
  /\ CodecIdle
  /\ ModesIdle
  /\ HeaderIdle
  /\ QueryIdle
  /\ cache = [NoCache EXCEPT !.map = [s \in SchemaIds |-> 0],
                             !.before = [s \in SchemaIds |-> 0],
                             !.asked = [s \in SchemaIds |-> FALSE],
                             !.given = [s \in SchemaIds |-> 0]]

\* the cache after a call with the given outcome
CacheCalled(op, s, r, result, asked, given) ==
  [map |-> r.map, built |-> r.built,
   last |-> [op |-> op, schema |-> s, result |-> result, threw |-> r.threw,
             prior |-> cache.given[s]],
   before |-> cache.map, asked |-> asked, given |-> given]

\* the cache after getOrCreateProtobuf(schema) with outcome r
GotOrCreated(s, r) ==
  CacheCalled("getOrCreate", s, r, r.result, [cache.asked EXCEPT ![s] = TRUE],
              [cache.given EXCEPT ![s] = r.result])

\* getOrCreateProtobuf(schema)
GetOrCreate ==
  /\ Len(cache.built) < MaxBuilds
  /\ \E s \in SchemaIds :
       cache' = GotOrCreated(s, getOrCreateProtobuf(cache.map, cache.built, s, CacheSchemas))
  /\ UNCHANGED <<phase, codecVars, senc, sdec, gv, hdr, qp, optVars>>

\* clearCacheForSchema(schema)
Clear ==
  /\ \E s \in SchemaIds :
       cache' = CacheCalled("clear", s, clearCacheForSchema(cache.map, cache.built, s), 0,
                            [cache.asked EXCEPT ![s] = FALSE],
                            [cache.given EXCEPT ![s] = 0])
  /\ UNCHANGED <<phase, codecVars, senc, sdec, gv, hdr, qp, optVars>>

\* isCached(schema): result is 1 for true, 0 for false
IsCached ==
  /\ \E s \in SchemaIds :
       cache' = CacheCalled("isCached", s, CacheOutcome(cache.map, cache.built, 0, FALSE),
                            IF isCached(cache.map, s) THEN 1 ELSE 0,
                            cache.asked, cache.given)
  /\ UNCHANGED <<phase, codecVars, senc, sdec, gv, hdr, qp, optVars>>

NextCache == GetOrCreate \/ Clear \/ IsCached

SpecCache == InitCache /\ [][NextCache]_vars

\* ------------------------------------------------- boolean packing scenario

BoolSeqs == UNION {[1..n -> BOOLEAN] : n \in 0..MaxBools}

InitPack ==
  /\ phase = "start"
  /\ CodecIdle
  /\ ModesIdle
  /\ HeaderIdle
  /\ QueryIdle
  /\ CacheIdle
  /\ BoolsIdle
  /\ DictIdle
  /\ ParamsIdle
  /\ \E values \in BoolSeqs : pack = [NoPack EXCEPT !.values = values]

\* packBooleans(values)
Pack ==
  /\ pack.did = "none"
  /\ pack' = [pack EXCEPT !.did = "pack", !.packed = packBooleans(pack.values)]
  /\ UNCHANGED <<phase, codecVars, senc, sdec, gv, hdr, qp, cache, bools, dict, sp>>

\* unpackBooleans(bytes, count), with all or only the first of the packed bytes
Unpack ==
  /\ pack.did = "pack"
  /\ \E n \in 0..Len(pack.packed), count \in 0..(MaxBools + 1) :
       pack' = [pack EXCEPT !.did = "unpack",
                            !.bytes = SubSeq(pack.packed, 1, n),
                            !.count = count,
                            !.unpacked = unpackBooleans(SubSeq(pack.packed, 1, n), count)]
  /\ UNCHANGED <<phase, codecVars, senc, sdec, gv, hdr, qp, cache, bools, dict, sp>>

NextPack == Pack \/ Unpack

SpecPack == InitPack /\ [][NextPack]_vars

\* --------------------------------------------------- boolean field scenario

ZEffects(kid) == Node("ZodEffects", <<>>, <<kid>>, <<>>, FALSE)

\* nine booleans declared out of order
S_flags ==
  Schema(1, <<ZObject(<<k_x, k_a, k_n, k_b, k_u, k_d, k_f, k_e, k_tags>>,
                      <<2, 2, 2, 2, 2, 2, 2, 2, 2>>), ZBoolean>>)
\* { n: boolean?, a: boolean | null, d: boolean = false, e: effects, b: (boolean = true)?,
\*   tags: boolean[], x: string, u: { f: boolean, a: boolean }? }
S_wrapped ==
  Schema(1, <<ZObject(<<k_n, k_a, k_d, k_e, k_b, k_tags, k_x, k_u>>,
                      <<3, 4, 5, 6, 7, 8, 9, 10>>),
              ZBoolean, ZOptional(2), ZNullable(2), ZDefault(2, Bool(FALSE)), ZEffects(2),
              ZOptional(5), ZArray(2), ZString, ZOptional(11),
              ZObject(<<k_f, k_a>>, <<2, 2>>)>>)
\* { u: { f: boolean }?, f: string }
S_shadow ==
  Schema(1, <<ZObject(<<k_u, k_f>>, <<2, 5>>), ZOptional(3), ZObject(<<k_f>>, <<4>>),
              ZBoolean, ZString>>)
\* { u: { b: { f: boolean } } | null }
S_deep ==
  Schema(1, <<ZObject(<<k_u>>, <<2>>), ZNullable(3), ZObject(<<k_b>>, <<4>>),
              ZObject(<<k_f>>, <<5>>), ZBoolean>>)
\* { a: z.boolean().optional().nullable(), b: boolean, d: z.boolean().optional().default(false) }
S_double ==
  Schema(1, <<ZObject(<<k_a, k_b, k_d>>, <<2, 4, 5>>), ZNullable(3), ZOptional(4), ZBoolean,
              ZDefault(3, Bool(FALSE))>>)
S_boolean == Schema(1, <<ZBoolean>>)

BoolSchemas == <<S_flags, S_wrapped, S_shadow, S_deep, S_double, S_boolean>>

BoolData ==
  << Obj(<<Prop(k_x, Bool(TRUE)), Prop(k_a, Bool(FALSE)), Prop(k_n, Bool(TRUE)),
          Prop(k_b, Bool(FALSE)), Prop(k_u, Bool(TRUE)), Prop(k_d, Bool(FALSE)),
          Prop(k_f, Bool(TRUE)), Prop(k_e, Bool(FALSE)), Prop(k_tags, Bool(TRUE))>>),
    Obj(<<Prop(k_n, Bool(TRUE)), Prop(k_a, Null), Prop(k_d, Bool(FALSE)),
          Prop(k_e, Bool(TRUE)), Prop(k_tags, Arr(<<Bool(TRUE), Bool(FALSE)>>)),
          Prop(k_x, Str(s_x)),
          Prop(k_u, Obj(<<Prop(k_f, Bool(TRUE)), Prop(k_a, Bool(FALSE))>>))>>),
    Obj(<<Prop(k_f, Str(s_off))>>),
    Obj(<<Prop(k_u, Obj(<<Prop(k_f, Bool(TRUE))>>)), Prop(k_f, Str(s_off))>>),
    Obj(<<Prop(k_u, Null)>>),
    Obj(<<Prop(k_u, Obj(<<Prop(k_b, Obj(<<Prop(k_f, Bool(TRUE))>>))>>))>>),
    Obj(<<Prop(k_a, Bool(TRUE)), Prop(k_b, Bool(FALSE)), Prop(k_d, Bool(TRUE))>>),
    Obj(<<Prop(k_b, Bool(TRUE)), Prop(k_x, Str(s_y))>>),
    Obj(<<>>),
    Bool(TRUE) >>

InitBools ==
  /\ phase = "start"
  /\ CodecIdle
  /\ ModesIdle
  /\ HeaderIdle
  /\ QueryIdle
  /\ CacheIdle
  /\ PackIdle
  /\ DictIdle
  /\ ParamsIdle
  /\ \E s \in 1..Len(BoolSchemas), i \in 1..Len(BoolData) :
       bools = [NoBools EXCEPT !.schema = s, !.data = BoolData[i]]

\* extractBooleanFields(schema)
ExtractFields ==
  /\ bools.did = "none"
  /\ bools' = [bools EXCEPT !.did = "extract",
                            !.fields = extractBooleanFields(BoolSchemas[bools.schema])]
  /\ UNCHANGED <<phase, codecVars, senc, sdec, gv, hdr, qp, cache, pack, dict, sp>>

\* removeBooleanFields(data, fields)
RemoveFields ==
  /\ bools.did = "extract"
  /\ bools' = [bools EXCEPT !.did = "remove",
                            !.removed = removeBooleanFields(bools.data, bools.fields)]
  /\ UNCHANGED <<phase, codecVars, senc, sdec, gv, hdr, qp, cache, pack, dict, sp>>

NextBools == ExtractFields \/ RemoveFields

SpecBools == InitBools /\ [][NextBools]_vars

\* ------------------------------------------------ string dictionary scenario

k_name == <<110, 97, 109, 101>>

DictValues ==
  << Obj(<<Prop(k_name, Str(s_tie)), Prop(k_a, Str(s_tie)),
          Prop(k_tags, Arr(<<Str(s_tie), Str(s_off), Str(s_tie), Str(s_on)>>))>>),
    Obj(<<Prop(k_tags, Arr(<<Str(s_tie), Str(s_off), Str(s_tie), Str(s_on)>>)),
          Prop(k_a, Str(s_tie)), Prop(k_name, Str(s_tie))>>),
    Arr(<<Str(s_off), Str(s_off), Str(s_run), Str(s_run)>>),
    Arr(<<Obj(<<Prop(k_x, Str(s_run)), Prop(k_n, Str(s_run))>>),
          Obj(<<Prop(k_x, Str(s_run)), Prop(k_n, Str(s_run))>>),
          Obj(<<Prop(k_x, Str(s_run)), Prop(k_n, Str(s_run))>>)>>),
    Obj(<<Prop(k_a, Str(s_off)), Prop(k_b, Str(s_run)), Prop(k_d, Str(s_tie))>>),
    Obj(<<Prop(k_u, Obj(<<Prop(k_name, Str(s_off)), Prop(k_tags, Str(s_off))>>)),
          Prop(k_e, Arr(<<>>)), Prop(k_f, Obj(<<>>)), Prop(k_n, Num(7)),
          Prop(k_b, Bool(TRUE)), Prop(k_d, Null)>>),
    Obj(<<Prop(k_ref, Num(0))>>),
    Obj(<<Prop(k_a, Obj(<<Prop(k_ref, Num(5))>>))>>),
    Obj(<<Prop(k_ref, Str(s_off))>>),
    Obj(<<Prop(k_a, Str(s_on)), Prop(k_b, Str(s_on)), Prop(k_d, Str(s_on))>>),
    Arr(<<Str(s_run), Str(s_run), Str(s_run)>>),
    Str(s_run),
    Num(7),
    Null,
    Undef >>

MinLengths == {2, 3, 4}

InitDict ==
  /\ phase = "start"
  /\ CodecIdle
  /\ ModesIdle
  /\ HeaderIdle
  /\ QueryIdle
  /\ CacheIdle
  /\ PackIdle
  /\ BoolsIdle
  /\ ParamsIdle
  /\ \E i \in 1..Len(DictValues), minLength \in MinLengths :
       dict = [NoDict EXCEPT !.value = DictValues[i], !.minLength = minLength]

\* buildStringDictionary(value, minLength)
Build ==
  /\ dict.did = "none"
  /\ dict' = [dict EXCEPT !.did = "build",
                          !.strings = buildStringDictionary(dict.value, dict.minLength)]
  /\ UNCHANGED <<phase, codecVars, senc, sdec, gv, hdr, qp, cache, pack, bools, sp>>

\* applyStringDictionary(value, dictionary, minLength)
Apply ==
  /\ dict.did = "build"
  /\ dict' = [dict EXCEPT !.did = "apply",
                          !.applied = applyStringDictionary(dict.value, dict.strings,
                                                            dict.minLength)]
  /\ UNCHANGED <<phase, codecVars, senc, sdec, gv, hdr, qp, cache, pack, bools, sp>>

\* restoreStringDictionary(applied, dictionary.strings)
Restore ==
  /\ dict.did = "apply"
  /\ dict' = [dict EXCEPT !.did = "restore",
                          !.restored = restoreStringDictionary(dict.applied, dict.strings)]
  /\ UNCHANGED <<phase, codecVars, senc, sdec, gv, hdr, qp, cache, pack, bools, sp>>

\* shouldUseDictionary(value, dictionary, minLength)
ShouldUse ==
  /\ dict.did = "build"
  /\ dict' = [dict EXCEPT !.did = "should",
                          !.should = shouldUseDictionary(dict.value, dict.strings,
                                                         dict.minLength)]
  /\ UNCHANGED <<phase, codecVars, senc, sdec, gv, hdr, qp, cache, pack, bools, sp>>

NextDict == Build \/ Apply \/ Restore \/ ShouldUse

SpecDict == InitDict /\ [][NextDict]_vars

\* ------------------------------------------------------ QueryParams scenario

EncodedValues == {s_x, s_on, s_off}
ParamNames == {k_state, k_a, k_x}
ParamValues == {s_x, s_y}

InitParams ==
  /\ phase = "start"
  /\ CodecIdle
  /\ ModesIdle
  /\ HeaderIdle
  /\ QueryIdle
  /\ CacheIdle
  /\ PackIdle
  /\ BoolsIdle
  /\ DictIdle
  /\ \E encodedValue \in EncodedValues : sp = [NoParams EXCEPT !.given = encodedValue]

\* the instance after an inherited mutation left it the list
Mutated(did, list) ==
  [sp EXCEPT !.did = did, !.list = list, !.mutations = @ + 1, !.read = NoRead]

\* new QueryParams(encodedValue)
NewQueryParams ==
  /\ sp.did = "none"
  /\ sp' = [sp EXCEPT !.did = "new",
                      !.list = QueryParams(sp.given).list,
                      !.encodedValue = QueryParams(sp.given).encodedValue]
  /\ UNCHANGED <<phase, codecVars, senc, sdec, gv, hdr, qp, cache, pack, bools, dict>>

\* params.set(name, value)
ParamsSet ==
  /\ sp.did # "none"
  /\ sp.mutations < MaxMutations
  /\ \E name \in ParamNames, value \in ParamValues :
       sp' = Mutated("set", uspSet(sp.list, name, value))
  /\ UNCHANGED <<phase, codecVars, senc, sdec, gv, hdr, qp, cache, pack, bools, dict>>

\* params.append(name, value)
ParamsAppend ==
  /\ sp.did # "none"
  /\ sp.mutations < MaxMutations
  /\ \E name \in ParamNames, value \in ParamValues :
       sp' = Mutated("append", uspAppend(sp.list, name, value))
  /\ UNCHANGED <<phase, codecVars, senc, sdec, gv, hdr, qp, cache, pack, bools, dict>>

\* params.delete(name)
ParamsDelete ==
  /\ sp.did # "none"
  /\ sp.mutations < MaxMutations
  /\ \E name \in ParamNames : sp' = Mutated("delete", uspDelete(sp.list, name))
  /\ UNCHANGED <<phase, codecVars, senc, sdec, gv, hdr, qp, cache, pack, bools, dict>>

\* params.sort()
ParamsSort ==
  /\ sp.did # "none"
  /\ sp.mutations < MaxMutations
  /\ sp' = Mutated("sort", uspSort(sp.list))
  /\ UNCHANGED <<phase, codecVars, senc, sdec, gv, hdr, qp, cache, pack, bools, dict>>

\* getState(), toString(), valueOf(), `${params}`, +params, params + '' and get('state')
ReadState ==
  /\ sp.did # "none"
  /\ sp.read = NoRead
  /\ sp' = [sp EXCEPT !.read =
              [getState |-> getState(sp), toString |-> QueryParams_toString(sp),
               valueOf |-> valueOf(sp), asString |-> toPrimitive(sp, "string"),
               asNumber |-> toPrimitive(sp, "number"),
               asDefault |-> toPrimitive(sp, "default"),
               state |-> uspGet(sp.list, k_state)]]
  /\ UNCHANGED <<phase, codecVars, senc, sdec, gv, hdr, qp, cache, pack, bools, dict>>

NextParams ==
  NewQueryParams \/ ParamsSet \/ ParamsAppend \/ ParamsDelete \/ ParamsSort \/ ReadState

SpecParams == InitParams /\ [][NextParams]_vars

\* ------------------------------------------------------ re-encoding scenario
\* A token is encoded at some version, an EncodedQueryParams instance is
\* constructed from it with or without a version argument, and toString()
\* encodes the instance again.

\* the instance constructed from a token with the given outcome
Constructed(r) == [NoQuery EXCEPT !.schema = input.schema, !.data = r.data, !.version = r.version]

\* new EncodedQueryParams(token, schema, version)
ConstructFromToken ==
  /\ phase = "encoded"
  /\ \E versionArg \in VersionArgs :
       /\ qp' = Constructed(qpFromString(token, Schemas[input.schema], versionArg))
       /\ gv' = <<versionArg>>
       /\ phase' = IF qpFromString(token, Schemas[input.schema], versionArg).threw
                   THEN "failed" ELSE "live"
  /\ UNCHANGED <<codecVars, senc, sdec, hdr, cache, optVars>>

\* params.toString()
Stringify ==
  /\ phase = "live"
  /\ qp' = [qp EXCEPT !.text = qpToString(qp.data, Schemas[qp.schema], qp.version)]
  /\ phase' = "text"
  /\ UNCHANGED <<codecVars, senc, sdec, gv, hdr, cache, optVars>>

NextReencode == Encode \/ ConstructFromToken \/ Stringify

SpecReencode == Init /\ [][NextReencode]_vars

\* ----------------------------------------------------- descriptor scenario
\* encode and decode over values of same-named nested fields and over
\* integers inside and outside the 32-bit range

WireSchemas == <<S_basic, S_twins, S_twinEnums, S_namesakes, S_nested>>

WireValues ==
  << Obj(<<Prop(k_a, Str(s_x)), Prop(k_n, Num(5))>>),
     Obj(<<Prop(k_a, Str(s_x)), Prop(k_n, Num(0 - 7))>>),
     Obj(<<Prop(k_a, Str(s_x)), Prop(k_n, Num(2147483647))>>),
     Obj(<<Prop(k_a, Str(s_x)), Prop(k_n, Num(0 - 2147483647))>>),
     Obj(<<Prop(k_a, Str(s_x)), Prop(k_n, Wide(1, 0 - 2147483647))>>),
     Obj(<<Prop(k_a, Str(s_x)), Prop(k_n, Wide(1, 7))>>),
     Obj(<<Prop(k_a, Str(s_x)), Prop(k_n, Wide(0 - 1, 2147483647))>>),
     Obj(<<Prop(k_a, Str(s_x)), Prop(k_n, Wide(2, 0))>>),
     Obj(<<Prop(k_u, Obj(<<Prop(k_x, Num(1))>>)),
           Prop(k_f, Obj(<<Prop(k_u, Obj(<<Prop(k_x, Num(2))>>))>>))>>),
     Obj(<<Prop(k_e, Str(s_on)), Prop(k_u, Obj(<<Prop(k_e, Str(s_off))>>))>>),
     Obj(<<Prop(k_u, Obj(<<Prop(k_e, Str(s_on))>>)), Prop(k_e, Obj(<<Prop(k_x, Num(1))>>))>>),
     Obj(<<Prop(k_u, Obj(<<Prop(k_x, Wide(1, 7))>>)), Prop(k_f, Bool(TRUE))>>),
     Obj(<<>>) >>

InitWire ==
  /\ phase = "start"
  /\ \E S \in {WireSchemas[i] : i \in 1..Len(WireSchemas)}, i \in 1..Len(WireValues),
        versionArg \in VersionArgs :
       input = [schema |-> IndexOf(Schemas, S), value |-> WireValues[i],
                versionArg |-> versionArg]
  /\ enc = NoCall
  /\ token = <<>>
  /\ dschema = 0
  /\ dec = NoCall
  /\ mig = NoMig
  /\ mres = NoMigration
  /\ graph = NoGraph
  /\ verdict = "none"
  /\ OthersIdle

NextWire == Encode \/ Forge \/ Decode

SpecWire == InitWire /\ [][NextWire]_vars

\* ------------------------------------------------------------------ claims
TheSchema == Schemas[input.schema]
TheVersion == IF input.versionArg = <<>> THEN 1 ELSE input.versionArg[1]
SchemaIndex(S) == IndexOf(Schemas, S)
\* the schemas of the universe that declare _encodedStateVersion somewhere
ReservedSchemas == {SchemaIndex(S_reserved), SchemaIndex(S_reservedNested)}
\* the schemas of the universe protobuf has no descriptor for
UnsupportedSchemas == {SchemaIndex(S_unsupported), SchemaIndex(S_string)}
\* the serialized message starts with the tag of field 1, the version field
StartsWithVersionField(binary) == Len(binary) > 0 /\ binary[1] = 8

\* C1: Round-trip: for every schema S built from supported constructs, every
\* value V valid under S and every version v, decode(encode(V, S, v), S)
\* returns a value equal to V.
C1_RoundTrip ==
  (phase = "decoded" /\ dschema = input.schema /\ ValidUnder(TheSchema, input.value))
    => (dec.ok /\ DeepEq(dec.out, input.value))

\* C2: Version preservation: encode writes the version field exactly when the
\* version is not 1, decode reads a payload without a version field as
\* version 1, and whenever decodeWithVersion returns for the token of
\* encode(V, S, v) under S, its version is v (1 when v was left out).
C2_VersionPreserved ==
  /\ enc.ok => (StartsWithVersionField(enc.binary) <=> TheVersion # 1)
  /\ (dec.ok /\ ~StartsWithVersionField(dec.binary) /\ phase \in {"decoded", "decodedForged"})
       => dec.version = 1
  /\ (phase = "decoded" /\ dschema = input.schema /\ dec.ok) => dec.version = TheVersion
C2_Witness ==
  /\ phase = "decoded" /\ dschema = input.schema /\ dec.ok
  /\ input.versionArg = <<1>> /\ ~StartsWithVersionField(enc.binary)
  /\ Len(enc.binary) > 0 /\ dec.version = 1

C9_NoPartialDecode ==
  (phase = "decodedCut" /\ dec.ok /\ ValidUnder(TheSchema, input.value))
    => Keys(input.value) \subseteq Keys(dec.out)

\* C10: the version of a token is readable under a schema other than the one
\* that produced it: for the token of encode(V, S, v) and another schema S',
\* decodeWithVersion and getVersion with S' yield v, also when V is not valid
\* under S'.
C10_VersionReadable ==
  (phase = "decoded" /\ dschema # input.schema
     /\ dschema \notin ReservedSchemas \cup UnsupportedSchemas)
    => /\ dec.ok /\ dec.version = TheVersion
       /\ getVersion(token, Schemas[dschema]) = TheVersion

\* ------------------------------------------------------ claims: migrations
SourceSchema == MigrationSchemas[mig.source]
TargetSchema == MigrationSchemas[mig.tschema]
\* applyMigrations has been called on the token of encode(value, source, current)
Applied == phase \in {"migrated", "refused", "read"}
\* migrations[index] exists: a valid index of a slot that is not empty
HopPresent(index) ==
  index >= 0 /\ index < Len(mig.migrations) /\ mig.migrations[index + 1].present
UpHops == mig.current..(mig.target - 1)
DownHops == (mig.target + 1)..mig.current
\* the calls the chain is to make between versions from and to
UpCalls(from, to) == [i \in 1..(to - from) |-> Call("up", from + i - 2)]
DownCalls(from, to) == [i \in 1..(from - to) |-> Call("down", from - i - 1)]
\* the named functions applied one after the other to a value
RECURSIVE Compose(_, _, _)
Compose(calls, i, data) ==
  IF i > Len(calls) THEN data
  ELSE Compose(calls, i + 1,
               IF calls[i].fn = "up"
               THEN MigrationUp(mig.migrations[calls[i].index + 1], data)
               ELSE MigrationDown(mig.migrations[calls[i].index + 1], data))
\* what the target schema makes of a value
AsTarget(data) == ZodParse(TargetSchema, TargetSchema.root, data)
\* the token of the call decodes under the target schema to the value the
\* chain produced, with the target version
DecodesTo(result) ==
  /\ AsTarget(result).ok <=> mres.ok
  /\ ~mres.ok => (mres.err = "ZodError" /\ mres.out = <<>>)
  /\ phase = "read" =>
       (dec.ok /\ DeepEq(dec.out, AsTarget(result).val) /\ dec.version = mig.target)

\* C3: Upgrade chain: when the token's version c is lower than the target
\* version t and every hop is present, applyMigrations calls migrations[v-1].up
\* for v = c, ..., t-1 in that order, each once, and no down function; it
\* re-encodes the result of that composition under the target schema at
\* version t, so it returns a token exactly when the target schema accepts the
\* result, and the token decodes under the target schema to that result with
\* version t.
C3_UpgradeChain ==
  (Applied /\ mig.current < mig.target /\ \A v \in UpHops : HopPresent(v - 1))
    => /\ mres.calls = UpCalls(mig.current, mig.target)
       /\ DeepEq(mres.data, Compose(UpCalls(mig.current, mig.target), 1, mig.value))
       /\ DecodesTo(Compose(UpCalls(mig.current, mig.target), 1, mig.value))
C3_Witness ==
  /\ phase = "read" /\ mig.current = 1 /\ mig.target = 3
  /\ mig.migrations = <<Migration(1, FALSE), Migration(2, TRUE)>>
  /\ mres.calls = <<Call("up", 0), Call("up", 1)>>
  /\ dec.ok /\ dec.version = 3 /\ Get(dec.out, k_n).v = 8

\* C4: Downgrade chain: when the token's version c is higher than the target
\* version t and every hop is present, applyMigrations calls
\* migrations[v-2].down for v = c, ..., t+1 in that order, each once, and no up
\* function; it re-encodes the result under the target schema at version t,
\* and the token it returns decodes under the target schema to that result
\* with version t.
C4_DowngradeChain ==
  (Applied /\ mig.current > mig.target /\ \A v \in DownHops : HopPresent(v - 2))
    => /\ mres.calls = DownCalls(mig.current, mig.target)
       /\ DeepEq(mres.data, Compose(DownCalls(mig.current, mig.target), 1, mig.value))
       /\ DecodesTo(Compose(DownCalls(mig.current, mig.target), 1, mig.value))
C4_Witness ==
  /\ phase = "read" /\ mig.current = 3 /\ mig.target = 1
  /\ mig.migrations = <<Migration(1, FALSE), Migration(2, TRUE)>>
  /\ mres.calls = <<Call("down", 1), Call("down", 0)>>
  /\ dec.ok /\ dec.version = 1 /\ Get(dec.out, k_n).v = 16

\* the first hop of the path whose entry is absent
FirstMissingUp == CHOOSE v \in UpHops :
  ~HopPresent(v - 1) /\ \A w \in UpHops : w < v => HopPresent(w - 1)
FirstMissingDown == CHOOSE v \in DownHops :
  ~HopPresent(v - 2) /\ \A w \in DownHops : w > v => HopPresent(w - 2)

\* C5: Missing hop: whenever the path from the token's version to the target
\* version needs a hop whose entry is absent (index below 0, index past the
\* end, or an empty slot), applyMigrations throws VersionMismatchError naming
\* that hop (v to v+1 upgrading, v to v-1 downgrading) and returns no token;
\* the hops before it were applied as they stood, none skipped or defaulted.
C5_MissingHop ==
  /\ (Applied /\ mig.current < mig.target /\ \E v \in UpHops : ~HopPresent(v - 1))
       => /\ ~mres.ok /\ mres.out = <<>>
          /\ mres.err = "VersionMismatchError"
          /\ mres.hop = <<FirstMissingUp, FirstMissingUp + 1>>
          /\ mres.calls = UpCalls(mig.current, FirstMissingUp)
  /\ (Applied /\ mig.current > mig.target /\ \E v \in DownHops : ~HopPresent(v - 2))
       => /\ ~mres.ok /\ mres.out = <<>>
          /\ mres.err = "VersionMismatchError"
          /\ mres.hop = <<FirstMissingDown, FirstMissingDown - 1>>
          /\ mres.calls = DownCalls(mig.current, FirstMissingDown)
C5_Witness ==
  /\ phase = "refused" /\ mig.current = 1 /\ mig.target = 3
  /\ mig.migrations = <<Migration(1, FALSE), Absent>>
  /\ mres.err = "VersionMismatchError" /\ mres.hop = <<2, 3>>
  /\ mres.calls = <<Call("up", 0)>>

\* C6: Same version: when the token's version equals the target version,
\* applyMigrations calls no up or down function whatever the migrations array
\* holds and returns encode(decoded, targetSchema, t): it fails with the
\* validation error when the data is not valid under the target schema, and
\* the token it returns otherwise decodes to the data with version t.
C6_SameVersion ==
  (Applied /\ mig.current = mig.target)
    => /\ mres.calls = <<>>
       /\ DeepEq(mres.data, mig.value)
       /\ DecodesTo(mig.value)
       /\ mres.ok => mres.out = encode(mig.value, TargetSchema, <<mig.target>>).out
C6_Witness ==
  /\ phase = "refused" /\ mig.current = 2 /\ mig.target = 2
  /\ Len(mig.migrations) = 2 /\ mig.migrations[2].present
  /\ mig.source = 1 /\ mig.tschema = 2
  /\ mres.err = "ZodError" /\ mres.calls = <<>>

\* ------------------------------------------------------ claims: validation
\* the schemas a schema is built from; a record contributes its value schema
Parts(n) ==
  IF n.kind = "ZodRecord" THEN {n.kids[2]} ELSE {n.kids[i] : i \in 1..Len(n.kids)}
RECURSIVE ReachableFrom(_, _)
ReachableFrom(S, ids) ==
  LET more == ids \cup UNION {Parts(S.nodes[id]) : id \in ids} IN
  IF more = ids THEN ids ELSE ReachableFrom(S, more)
DeclaresReserved(S) ==
  \E id \in ReachableFrom(S, {S.root}) :
    /\ S.nodes[id].kind = "ZodObject"
    /\ \E i \in 1..Len(S.nodes[id].keys) : S.nodes[id].keys[i] = RESERVED_FIELD

\* C7: validateSchema throws ValidationError if and only if some object shape
\* reachable from the schema (through objects, arrays, optional / nullable /
\* default wrappers, unions, discriminated unions, intersections, records,
\* maps, tuples, effects, pipelines and lazy schemas, at any depth, also when
\* the schema refers to itself) has a key named _encodedStateVersion.
C7_ReservedIff ==
  phase = "validated" => (verdict = "throws" <=> DeclaresReserved(graph))
C7_Witness ==
  /\ phase = "validated" /\ verdict = "throws"
  /\ graph.nodes[1].kind = "ZodLazy"
  /\ \E id \in ReachableFrom(graph, {1}) :
       /\ graph.nodes[id].kind = "ZodLazy"
       /\ graph.nodes[id].kids[1] \in 1..id
       /\ id > 1

\* C11: getVersion never throws: it returns a number for every token and
\* schema; 1 whenever decodeWithVersion throws for the same token and schema,
\* the version decodeWithVersion returns otherwise, which for a token of
\* encode read under its own schema is the version it was encoded at.
C11_GetVersionTotal ==
  gv # <<>> =>
    /\ Len(gv) = 1 /\ gv[1] \in Nat
    /\ ~dec.ok => gv[1] = 1
    /\ dec.ok => gv[1] = dec.version
    /\ (phase = "decoded" /\ dschema = input.schema /\ dec.ok) => gv[1] = TheVersion
\* a token encoded at version 2 that the schema at hand cannot decode
C11_Witness ==
  /\ phase = "decoded" /\ TheVersion = 2 /\ dschema # input.schema
  /\ ~dec.ok /\ gv = <<1>>

\* C12: Result-typed mode: with safeParse: true, encode and decode return a
\* result object for every input; it is { success: true, data } with the
\* data of the throwing mode exactly when the throwing mode returns, and
\* { success: false, error } with the thrown error and no data exactly when
\* the throwing mode throws.
C12_SafeParse ==
  /\ senc # NoSafe =>
       /\ senc.success <=> enc.ok
       /\ enc.ok => (senc.data = <<enc.out>> /\ senc.error = <<>>)
       /\ ~enc.ok => (senc.data = <<>> /\ senc.error = <<enc.err, enc.msg>>)
  /\ sdec # NoSafe =>
       /\ sdec.success <=> dec.ok
       /\ dec.ok => (sdec.data = <<dec.out>> /\ sdec.error = <<>>)
       /\ ~dec.ok => (sdec.data = <<>> /\ sdec.error = <<dec.err, dec.msg>>)
\* an encode that returns in both modes, then a decode that fails in both
C12_Witness ==
  /\ senc.success /\ senc.data = <<token>> /\ phase = "decoded"
  /\ sdec # NoSafe /\ ~sdec.success /\ sdec.error[1] = "DecodingError"

\* the bytes are a header of h bytes, then the marker and the payload that
\* adaptive compression makes of the serialized message
HasLayout(bytes, h, binary) ==
  Len(bytes) > h /\ SubSeq(bytes, h + 1, Len(bytes)) = AdaptiveCompress(binary)

\* C13: Token layout: every token produced by encode is the base64url text
\* of a 1- or 2-byte version/flags header, followed by the 1-byte compression
\* marker, followed by the payload bytes.
C13_TokenLayout ==
  phase = "encoded" =>
    \E h \in {1, 2} : HasLayout(decodeBase64Url(token), h, enc.binary)

\* C14: Header round-trip: for every version in 0..1023, every combination
\* of the compressed, stringDictionary and booleanPacking flags and every
\* payload, encodeWithHeader returns payload length + 2 bytes, and
\* decodeWithHeader of them returns exactly that payload, version and flags
\* (a flag left out reads as false).
C14_HeaderRoundTrip ==
  /\ (phase # "start" /\ hdr.version \in 0..1023) =>
       (hdr.framed.ok /\ Len(hdr.framed.bytes) = Len(hdr.payload) + 2)
  /\ phase = "unframed" =>
       /\ hdr.unframed.payload = hdr.payload
       /\ hdr.unframed.version = hdr.version
       /\ hdr.unframed.compressed = hdr.options.compressed
       /\ hdr.unframed.stringDictionary = Truthy(hdr.options.stringDictionary)
       /\ hdr.unframed.booleanPacking = Truthy(hdr.options.booleanPacking)
\* the largest version with all three flags set
C14_Witness ==
  /\ phase = "unframed" /\ hdr.version = 1023 /\ Len(hdr.payload) = MaxPayloadLen
  /\ hdr.options.compressed /\ hdr.options.stringDictionary = <<TRUE>>
  /\ hdr.options.booleanPacking = <<TRUE>>
  /\ hdr.unframed.version = 1023 /\ hdr.framed.bytes[1] = 127 /\ hdr.framed.bytes[2] = 63

\* C15: Header version bound: encodeWithHeader rejects every version below
\* 0 or above 1023 with the error 'Version must be 0-1023' and produces no
\* bytes for it; it never truncates or saturates the version into the
\* 10-bit field.
C15_VersionBound ==
  (phase # "start" /\ hdr.version \notin 0..1023) =>
    /\ phase = "rejected"
    /\ ~hdr.framed.ok /\ hdr.framed.err = "Version must be 0-1023"
    /\ hdr.framed.bytes = <<>>
\* 1024, whose lower ten bits are those of version 0
C15_Witness ==
  phase = "rejected" /\ hdr.version = 1024 /\ hdr.framed.err = "Version must be 0-1023"

\* the schema of the instance, and the schema of one of its fields
QuerySchema == QuerySchemas[qp.schema]
QueryShape == QuerySchema.nodes[QuerySchema.root]
FieldAccepts(name, value) ==
  ZodParse(QuerySchema, QueryShape.kids[IndexOf(QueryShape.keys, name)], value).ok
IsField(name) == IndexOf(QueryShape.keys, name) > 0

\* C16: EncodedQueryParams keeps its data valid under the schema after any
\* sequence of set, delete, append and sort calls; a call that is rejected
\* leaves the data, size and entries() as they were before the call; and
\* setting a value invalid for the field, deleting a required field,
\* appending to a missing or non-array parameter and appending an invalid
\* element are rejected.
C16_QueryParamsValid ==
  phase = "live" =>
    /\ ValidUnder(QuerySchema, qp.data)
    /\ qp.last.threw =>
         /\ qp.data = qp.before.data
         /\ qpSize(qp.data) = qp.before.size
         /\ qpEntries(qp.data) = qp.before.entries
    /\ (qp.last.op = "set" /\ IsField(qp.last.name)
          /\ ~FieldAccepts(qp.last.name, qp.last.value)) => qp.last.threw
    /\ (qp.last.op = "delete" /\ IsField(qp.last.name)
          /\ ~FieldAccepts(qp.last.name, Undef)) => qp.last.threw
    /\ (qp.last.op = "append"
          /\ (~HasKey(qp.before.data, qp.last.name)
               \/ Get(qp.before.data, qp.last.name).t # "array")) => qp.last.threw
    /\ (qp.last.op = "append" /\ IsField(qp.last.name)
          /\ ~FieldAccepts(qp.last.name, Arr(<<qp.last.value>>))) => qp.last.threw
\* the third call on an instance appends a number to an array of strings
\* and is refused
C16_Witness ==
  /\ phase = "live" /\ qp.calls = 3
  /\ qp.last.op = "append" /\ qp.last.name = k_tags /\ qp.last.value = Num(5)
  /\ qp.last.threw /\ qp.before.size = 2 /\ qp.data.v[1].k = k_a
  /\ Get(qp.data, k_tags) = Arr(<<Str(s_y)>>)

Min(a, b) == IF a < b THEN a ELSE b
\* bytes are the marker and the shorter of the two forms, raw on a tie
AdaptivelyMarked(bytes, raw, deflated) ==
  /\ Len(bytes) = 1 + Min(Len(raw), Len(deflated))
  /\ Len(deflated) < Len(raw) <=> bytes[1] = 1
  /\ Len(deflated) < Len(raw) => Tail(bytes) = deflated
  /\ ~(Len(deflated) < Len(raw)) => (bytes[1] = 0 /\ Tail(bytes) = raw)

\* C17: Adaptive compression: the token's bytes are marker 0x01 followed by
\* the DEFLATE output exactly when that output is strictly shorter than the
\* raw serialization, and marker 0x00 followed by the raw serialization
\* otherwise (ties go to raw); the bytes after the marker have length
\* min(raw length, compressed length).
C17_AdaptiveCompression ==
  phase = "encoded" =>
    AdaptivelyMarked(decodeBase64Url(token), enc.binary, compress(enc.binary))
\* a tie: the deflated form is as long as the raw one, and the raw one is sent
C17_Witness ==
  /\ phase = "encoded" /\ Len(compress(enc.binary)) = Len(enc.binary)
  /\ decodeBase64Url(token) = <<0>> \o enc.binary

\* the call went through the given step
Did(r, step) == \E i \in 1..Len(r.steps) : r.steps[i] = step
\* r is what decode makes of these bytes by their first byte alone
BranchedOnMarker(bytes, r) ==
  /\ (Len(bytes) > 0 /\ bytes[1] = 1) =>
       /\ Did(r, "decompress")
       /\ r.ok => r.binary = decompress(Tail(bytes)).out
  /\ (Len(bytes) > 0 /\ bytes[1] = 0) =>
       /\ ~Did(r, "decompress")
       /\ r.ok => r.binary = Tail(bytes)
       /\ Did(r, "zodToProtobuf")
  /\ (Len(bytes) = 0 \/ bytes[1] \notin {0, 1}) =>
       /\ ~r.ok /\ r.err = "DecodingError"
       /\ ~Did(r, "decompress") /\ ~Did(r, "zodToProtobuf") /\ ~Did(r, "pbType.decode")

\* C18: decode branches on the marker only: once the schema has passed
\* validateSchema, it inflates the bytes after the first byte exactly when
\* the first byte is 0x01, uses them verbatim exactly when it is 0x00, and
\* for any other first byte, or for an empty token, throws DecodingError
\* without attempting decompression or deserialization.
C18_MarkerBranch ==
  (phase \in {"decoded", "decodedCut", "decodedForged"}
   /\ ~validateSchemaThrows(Schemas[dschema])) =>
    BranchedOnMarker(decodeBase64Url(token), dec)
\* the forged token "Ag": its only byte is 0x02
C18_Witness ==
  /\ phase = "decodedForged" /\ token = <<"A", "g">>
  /\ ~validateSchemaThrows(Schemas[dschema])
  /\ dec.err = "DecodingError" /\ dec.steps = <<"validateSchema", "decodeBase64Url">>

\* the fields carry the names of the keys, in their order, numbered from first
NumberedFrom(fields, keys, first) ==
  /\ Len(fields) = Len(keys)
  /\ \A k \in 1..Len(keys) : fields[k].name = keys[k] /\ fields[k].id = first + k - 1
\* the message of every object-typed field of the shape is numbered from 1
NestedNumbered(S, shape, root) ==
  \A k \in 1..Len(shape.keys) :
    S.nodes[FieldSchema(S, shape.kids[k])].kind = "ZodObject" =>
      NumberedFrom(RootGet(root, Capitalize(shape.keys[k]) \o n_Message).fields,
                   S.nodes[FieldSchema(S, shape.kids[k])].keys, 1)
Numbered(S, type) ==
  /\ type.err = ""
  /\ type.out.fields[1].name = RESERVED_FIELD /\ type.out.fields[1].id = 1
  /\ NumberedFrom(Tail(type.out.fields), S.nodes[S.root].keys, 2)
  /\ NestedNumbered(S, S.nodes[S.root], type.root)

\* C19: Field numbering: every descriptor zodToProtobuf builds gives the
\* version field number 1 and numbers the root schema's fields 2, 3, ... in
\* the schema's declared key order; every nested message numbers its own
\* fields 1, 2, ... in declared order; two descriptors built of the same
\* schema have the same numbering.
C19_FieldNumbering ==
  /\ \A i \in 1..Len(cache.built) :
       Numbered(CacheSchemas[cache.built[i].schema], cache.built[i].type)
  /\ \A i, j \in 1..Len(cache.built) :
       CacheSchemas[cache.built[i].schema] = CacheSchemas[cache.built[j].schema]
         => cache.built[i].type = cache.built[j].type
\* the schema with keys u, f, b (u holding x, a) built twice, the cache
\* cleared in between
C19_Witness ==
  /\ Len(cache.built) = 2 /\ cache.built[1].schema = 1 /\ cache.built[2].schema = 1
  /\ cache.built[2].type.out.fields[2].name = k_u /\ cache.built[2].type.out.fields[2].id = 2
  /\ cache.built[2].type.out.fields[4].name = k_b /\ cache.built[2].type.out.fields[4].id = 4
  /\ RootGet(cache.built[2].type.root, Capitalize(k_u) \o n_Message).fields[2].name = k_a
  /\ RootGet(cache.built[2].type.root, Capitalize(k_u) \o n_Message).fields[2].id = 2

\* a getOrCreateProtobuf(S) that follows another with no clearCacheForSchema(S)
\* between them returns the same descriptor
SameDescriptor ==
  (cache.last.op = "getOrCreate" /\ ~cache.last.threw /\ cache.last.prior # 0)
    => cache.last.result = cache.last.prior
\* a call for one schema leaves what is cached for every other schema
OthersUntouched ==
  \A t \in DOMAIN cache.map : t # cache.last.schema => cache.map[t] = cache.before[t]

\* C20 as stated: two getOrCreateProtobuf(S) calls with no
\* clearCacheForSchema(S) between them return the same descriptor,
\* isCached(S) is true exactly from the first getOrCreateProtobuf(S) call
\* until the next clearCacheForSchema(S), and a call for one schema never
\* changes what is cached for another.
C20_CacheCoherent ==
  /\ SameDescriptor
  /\ cache.last.op = "isCached" =>
       (cache.last.result = 1 <=> cache.asked[cache.last.schema])
  /\ OthersUntouched

\* C20, amended: as above, with isCached(S) true exactly from the first
\* getOrCreateProtobuf(S) that returns a descriptor until the next
\* clearCacheForSchema(S); a call that throws caches nothing.
C20_CacheCoherentWhenBuilt ==
  /\ SameDescriptor
  /\ cache.last.op = "isCached" =>
       (cache.last.result = 1 <=> cache.given[cache.last.schema] # 0)
  /\ \A s \in DOMAIN cache.map : cache.map[s] = cache.given[s]
  /\ (cache.last.op = "getOrCreate" /\ cache.last.threw) => cache.map = cache.before
  /\ OthersUntouched
\* two schema objects of one structure hold a descriptor each, and isCached
\* says so of the first
C20_Witness ==
  /\ cache.last.op = "isCached" /\ cache.last.schema = 1 /\ cache.last.result = 1
  /\ cache.map[1] = 1 /\ cache.map[2] = 2
\* ------------------------------------------------ claims: boolean packing

\* bit k (0 = least significant) of a byte
BitOf(byte, k) == (byte \div Pow2(k)) % 2

\* C21: packBooleans stores values[i] as bit (i mod 8), least significant
\* first, of byte floor(i / 8), and returns exactly ceil(n / 8) bytes whose
\* unused high bits are 0; unpackBooleans returns exactly count values, reads
\* positions past the supplied bytes as false, and gives back the packed
\* values when handed their bytes and their number.
C21_PackBooleans ==
  /\ pack.did # "none" =>
       /\ Len(pack.packed) = (Len(pack.values) + 7) \div 8
       /\ \A b \in 1..Len(pack.packed) : \A k \in 0..7 :
            BitOf(pack.packed[b], k) =
              IF 8 * (b - 1) + k < Len(pack.values) /\ pack.values[8 * (b - 1) + k + 1]
              THEN 1 ELSE 0
       /\ \A b \in 1..Len(pack.packed) : pack.packed[b] \in 0..255
  /\ pack.did = "unpack" =>
       /\ Len(pack.unpacked) = pack.count
       /\ \A i \in 0..(pack.count - 1) :
            pack.unpacked[i + 1] =
              /\ i \div 8 < Len(pack.bytes)
              /\ BitOf(pack.bytes[(i \div 8) + 1], i % 8) = 1
       /\ (pack.bytes = pack.packed /\ pack.count = Len(pack.values)) =>
            pack.unpacked = pack.values

\* nine booleans, the first false and the ninth true, were packed into two
\* bytes and unpacked from them; another unpacking read past the bytes
C21_Witness ==
  /\ pack.did = "unpack"
  /\ Len(pack.values) = 9
  /\ ~pack.values[1] /\ pack.values[2] /\ pack.values[9]
  /\ pack.packed[2] = 1
  /\ pack.bytes = pack.packed
  /\ pack.count = 9
  /\ pack.unpacked = pack.values

\* -------------------------------------------- claims: boolean field lists

\* the schema behind any effects, optional, nullable and default wrappers
RECURSIVE Bare(_, _)
Bare(S, id) ==
  IF S.nodes[id].kind \in {"ZodEffects", "ZodOptional", "ZodNullable", "ZodDefault"}
  THEN Bare(S, S.nodes[id].kids[1]) ELSE id

\* the paths of the boolean fields outside arrays, depth first over sorted keys
RECURSIVE BooleanPaths(_, _, _)
RECURSIVE BooleanPathsOf(_, _, _, _)
BooleanPaths(S, id, path) ==
  IF S.nodes[Bare(S, id)].kind = "ZodBoolean" THEN <<path>>
  ELSE IF S.nodes[Bare(S, id)].kind = "ZodObject"
       THEN BooleanPathsOf(S, S.nodes[Bare(S, id)],
                           SortedKeys(S.nodes[Bare(S, id)].keys), path)
       ELSE <<>>
BooleanPathsOf(S, n, keys, path) ==
  IF keys = <<>> THEN <<>>
  ELSE BooleanPaths(S, ShapeAt(n, Head(keys)), Append(path, Head(keys)))
       \o BooleanPathsOf(S, n, Tail(keys), path)

Reverse(seq) == [i \in 1..Len(seq) |-> seq[Len(seq) + 1 - i]]
\* the same schema with the keys of every object declared in reverse order
Reordered(S) ==
  Schema(S.root,
         [i \in 1..Len(S.nodes) |->
            IF S.nodes[i].kind = "ZodObject"
            THEN ZObject(Reverse(S.nodes[i].keys), Reverse(S.nodes[i].kids))
            ELSE S.nodes[i]])

\* C22: extractBooleanFields lists the boolean fields of the schema outside
\* arrays, depth first over lexicographically sorted keys; the k-th field
\* (from 0) gets byteIndex floor(k / 8) and bitPosition k mod 8; the same
\* fields declared in another key order give the same list.
C22_BooleanFieldOrder ==
  bools.did # "none" =>
    /\ Len(bools.fields) = Len(BooleanPaths(BoolSchemas[bools.schema], 1, <<>>))
    /\ \A k \in 0..(Len(bools.fields) - 1) :
         bools.fields[k + 1] =
           [path |-> BooleanPaths(BoolSchemas[bools.schema], 1, <<>>)[k + 1],
            bitPosition |-> k % 8, byteIndex |-> k \div 8]
    /\ extractBooleanFields(Reordered(BoolSchemas[bools.schema])) = bools.fields

\* the value without what it holds at the path
RECURSIVE WithoutPath(_, _)
WithoutPath(x, path) ==
  IF path = <<>> \/ x.t # "object" \/ ~HasKey(x, Head(path)) THEN x
  ELSE IF Len(path) = 1 THEN DropKey(x, Head(path))
  ELSE SetKey(x, Head(path), WithoutPath(Get(x, Head(path)), Tail(path)))
RECURSIVE WithoutPaths(_, _, _)
WithoutPaths(x, fields, i) ==
  IF i > Len(fields) THEN x ELSE WithoutPaths(WithoutPath(x, fields[i].path), fields, i + 1)

\* C23: removeBooleanFields(data, fields) returns data without exactly the
\* values at the listed paths: every other key is kept with its value, also
\* when an intermediate object of a path is absent.
C23_RemoveExactly ==
  bools.did = "remove" =>
    /\ ~bools.removed.threw
    /\ DeepEq(bools.removed.value, WithoutPaths(bools.data, bools.fields, 1))

\* ----------------------------------------------- claims: string dictionary

\* every string of a value, keys and values, in the order of a depth-first
\* walk over sorted keys (each key, then its value) and over array items
RECURSIVE StringsOf(_)
RECURSIVE StringsOfItems(_, _)
RECURSIVE StringsOfKeys(_, _)
StringsOf(value) ==
  IF value.t = "string" THEN <<value.v>>
  ELSE IF value.t = "array" THEN StringsOfItems(value.v, 1)
  ELSE IF value.t = "object" THEN StringsOfKeys(value, SortedKeys(KeysOf(value.v)))
  ELSE <<>>
StringsOfItems(items, i) ==
  IF i > Len(items) THEN <<>> ELSE StringsOf(items[i]) \o StringsOfItems(items, i + 1)
StringsOfKeys(value, keys) ==
  IF keys = <<>> THEN <<>>
  ELSE <<Head(keys)>> \o StringsOf(Get(value, Head(keys))) \o StringsOfKeys(value, Tail(keys))

\* the first occurrences, in order, of the strings of at least minLength
FirstSeen(all, minLength) ==
  SelectSeq([i \in 1..Len(all) |->
               IF Len(all[i]) >= minLength /\ \A j \in 1..(i - 1) : all[j] # all[i]
               THEN <<all[i]>> ELSE <<>>],
            LAMBDA s : s # <<>>)

\* the same value with the properties of every object inserted in reverse order
RECURSIVE Reinserted(_)
Reinserted(value) ==
  IF value.t = "array" THEN Arr([i \in 1..Len(value.v) |-> Reinserted(value.v[i])])
  ELSE IF value.t = "object"
       THEN Obj([i \in 1..Len(value.v) |->
                   Prop(value.v[Len(value.v) + 1 - i].k,
                        Reinserted(value.v[Len(value.v) + 1 - i].val))])
  ELSE value

\* C24: buildStringDictionary(V, minLength) lists without duplicates, in the
\* first-seen order of a depth-first walk over sorted keys (each key, then its
\* value) and array items in index order, exactly the strings (keys and
\* values) of length >= minLength; the insertion order of keys does not matter.
C24_DictionaryOrder ==
  dict.did # "none" =>
    /\ Len(dict.strings) = Len(FirstSeen(StringsOf(dict.value), dict.minLength))
    /\ \A i \in 1..Len(dict.strings) :
         <<dict.strings[i]>> = FirstSeen(StringsOf(dict.value), dict.minLength)[i]
    /\ buildStringDictionary(Reinserted(dict.value), dict.minLength) = dict.strings

\* the dictionary of { name: s, a: s, tags: [s, 'off', s, 'on'] } with
\* minLength 3 is [s, 'name', 'tags', 'off']: s once, the keys of length 4,
\* the string of exactly three characters, and neither 'a' nor 'on'
C24_Witness ==
  /\ dict.did = "build"
  /\ dict.minLength = 3
  /\ dict.value.t = "object"
  /\ Len(dict.value.v) = 3
  /\ dict.value.v[1].k = k_name
  /\ dict.strings = <<s_tie, k_name, k_tags, s_off>>

\* C25: restoreStringDictionary(applyStringDictionary(V, D), D.strings)
\* equals V for D = buildStringDictionary(V).
C25_DictionaryRoundTrip ==
  dict.did = "restore" => (dict.restored.t # "thrown" /\ DeepEq(dict.restored, dict.value))

\* the lengths of the strings of at least minLength that are values
RECURSIVE InlineLengths(_, _)
RECURSIVE InlineLengthsOf(_, _, _)
InlineLengths(value, minLength) ==
  IF value.t = "string" THEN (IF Len(value.v) >= minLength THEN <<Len(value.v)>> ELSE <<>>)
  ELSE IF value.t \in {"array", "object"} THEN InlineLengthsOf(value, 1, minLength)
  ELSE <<>>
InlineLengthsOf(value, i, minLength) ==
  IF i > Len(value.v) THEN <<>>
  ELSE InlineLengths(IF value.t = "array" THEN value.v[i] ELSE value.v[i].val, minLength)
       \o InlineLengthsOf(value, i + 1, minLength)
RECURSIVE Sum(_)
Sum(lengths) == IF lengths = <<>> THEN 0 ELSE Head(lengths) + Sum(Tail(lengths))

\* C26: shouldUseDictionary(V, D) is true exactly when the estimated size,
\* the sum of length + 1 over the dictionary entries plus 2 per reference
\* plus 2, is at least 10% smaller than the total length of the inline
\* strings of length >= minLength in V.
C26_TenPercent ==
  dict.did = "should" =>
    (dict.should <=>
       10 * (Sum([i \in 1..Len(dict.strings) |-> Len(dict.strings[i]) + 1])
             + 2 * Len(InlineLengths(dict.value, dict.minLength)) + 2)
         <= 9 * Sum(InlineLengths(dict.value, dict.minLength)))

\* ----------------------------------------------------- claims: QueryParams

\* C30: getState(), toString(), valueOf() and primitive coercion return the
\* string given to the constructor after any sequence of inherited set,
\* append, delete and sort calls; get('state') equals getState() right
\* after construction.
C30_EncodedValueFixed ==
  sp.read # NoRead =>
    /\ sp.read.getState = <<sp.given>>
    /\ sp.read.toString = <<sp.given>>
    /\ sp.read.valueOf = <<sp.given>>
    /\ sp.read.asString = <<sp.given>>
    /\ sp.read.asNumber = <<sp.given>>
    /\ sp.read.asDefault = <<sp.given>>
    /\ sp.did = "new" => sp.read.state = sp.read.getState

\* after set('state', other) the getters still give the constructor's
\* string while get('state') gives the other one
C30_Witness ==
  /\ sp.did = "set"
  /\ sp.read # NoRead
  /\ sp.read.getState = <<sp.given>>
  /\ sp.read.toString = <<sp.given>>
  /\ sp.read.state # <<>>
  /\ sp.read.state # sp.read.getState

\* ----------------------------------------------------- claims: re-encoding

\* C27: toString() encodes at the version given to the constructor, 1 when
\* none was given; the version of the token the instance was constructed
\* from is not retained.
C27_ToStringVersion ==
  (phase = "text" /\ qp.text.ok) =>
    /\ qp.version = (IF gv[1] = <<>> THEN 1 ELSE gv[1][1])
    /\ getVersion(qp.text.out, Schemas[qp.schema]) = qp.version
    /\ DeepEq(decodeWithVersion(qp.text.out, Schemas[qp.schema]).out, qp.data)

\* a token encoded at version 2 went through an instance constructed with
\* no version argument, and toString() gave a token of version 1
C27_Witness ==
  /\ phase = "text"
  /\ qp.text.ok
  /\ input.versionArg = <<2>>
  /\ getVersion(token, Schemas[input.schema]) = 2
  /\ gv = <<<<>>>>
  /\ getVersion(qp.text.out, Schemas[qp.schema]) = 1

\* ----------------------------------------------------- claims: descriptors

\* the schemas of the universe with two nested fields of one name and kind
TwinSchemas == {IndexOf(Schemas, S_twins), IndexOf(Schemas, S_twinEnums)}

\* C28: nested message and enum descriptors are registered in one flat root
\* under the capitalized field name + 'Message' or 'Enum', whatever the path:
\* for a schema with two object fields, or two enum fields, of one name at
\* different paths the second registration is rejected, and encode and
\* decode fail.
C28_SameNameRejected ==
  /\ (enc.err # "none" /\ input.schema \in TwinSchemas) => ~enc.ok
  /\ (enc.err # "none" /\ input.schema \in TwinSchemas
        /\ ZodParse(TheSchema, TheSchema.root, input.value).ok)
       => enc.msg = "duplicate name"
  /\ (dec.err # "none" /\ dschema \in TwinSchemas) => ~dec.ok
  /\ (phase = "decoded" /\ enc.ok /\ dschema \in TwinSchemas) => dec.msg = "duplicate name"
  /\ (enc.err # "none" /\ input.schema = IndexOf(Schemas, S_namesakes)
        /\ ZodParse(TheSchema, TheSchema.root, input.value).ok)
       => enc.ok

\* encode of { u: { x: 1 }, f: { u: { x: 2 } } }, valid under its schema,
\* failed on the second UMessage
C28_Witness ==
  /\ phase = "failed"
  /\ input.schema = IndexOf(Schemas, S_twins)
  /\ ValidUnder(TheSchema, input.value)
  /\ ~enc.ok
  /\ enc.msg = "duplicate name"

\* C29: an integer-constrained number field travels as a signed 32-bit
\* integer: encode reduces the value modulo 2^32 into [-2^31, 2^31 - 1]
\* without an error, so an integer outside that range decodes to a different
\* integer and only the integers inside it come back unchanged.
C29_Int32Wraps ==
  (input.schema = IndexOf(Schemas, S_basic) /\ ValidUnder(TheSchema, input.value)
     /\ enc.err # "none")
    => /\ enc.ok
       /\ (phase = "decoded" /\ dschema = input.schema) =>
            /\ dec.ok
            /\ Get(dec.out, k_n) = Num(Get(input.value, k_n).v)
            /\ DeepEq(dec.out, input.value) <=> Get(input.value, k_n).q = 0

\* 2^32 + 7 went in and 7 came out
C29_Witness ==
  /\ phase = "decoded"
  /\ dschema = input.schema
  /\ input.schema = IndexOf(Schemas, S_basic)
  /\ Get(input.value, k_n) = Wide(1, 7)
  /\ dec.ok
  /\ Get(dec.out, k_n) = Num(7)

====
